---- MODULE Spec2Model ----
(***************************************************************************)
(* Logo_Maker: the configuration generator (api/_lib/logoConfig.js) and    *)
(* the POST /api/generate handler, as state machines.                      *)
(*                                                                         *)
(* JavaScript values are records tagged by their type.  The strings of the *)
(* closed sets (palette categories, shapes, ...) are atoms; a brand name   *)
(* is a sequence of characters, because the code indexes, splits, trims    *)
(* and slices it.  A character is a one-element token: "a", " ", and the   *)
(* tokens "TAB", "LF" (white space other than the space) and "sz" (the     *)
(* sharp s, whose upper case is the two characters "SS").                  *)
(***************************************************************************)
EXTENDS Integers, Sequences, FiniteSets, TLC

VARIABLES
    gen,     \* the generator call under observation: its input, draws, result
    hpc,     \* POST /api/generate handler: position of the running invocation
    req,     \* the request being handled
    hloc,    \* the handler's locals (trimmed, length, filters, logos)
    res,     \* the responses sent for the request, in order
    errlog,  \* the console.error calls of the handler
    ui       \* the presentation layer: what a renderer, the exporter or a
             \* preview did with the configuration it was given

vars == <<gen, hpc, req, hloc, res, errlog, ui>>

---------------------------------------------------------------------------
(* Bounds of the model *)

\* Math.random() returns k / RandDen for k in 0 .. RandDen-1
RandDen == 2
\* for the integer style parameters Math.random() returns k / NumericDen
NumericDen == 8
\* brand names enumerated exhaustively: every string up to this length
MaxNameLen == 3

---------------------------------------------------------------------------
(* JavaScript values *)

Undefined == [t |-> "undefined"]
Null == [t |-> "null"]
Str(s) == [t |-> "string", s |-> s]
Bool(b) == [t |-> "boolean", b |-> b]
Obj(f) == [t |-> "object", f |-> f]
\* the number  sign * (int + 0.frac) * 10^exp ; exp > 0 only for the numbers
\* of 10^21 and more, which JavaScript prints in exponent notation
Number(sign, int, frac, exp) ==
    [t |-> "number", sign |-> sign, int |-> int, frac |-> frac, exp |-> exp]
IntNum(i) == Number(IF i < 0 THEN -1 ELSE 1, IF i < 0 THEN -i ELSE i, <<>>, 0)

\* a rational n / d, kept unnormalised
Rat(n, d) == [n |-> n, d |-> d]

\* Math.floor(u * m) for a random value u = n/d in [0, 1)
FloorMul(u, m) == (u.n * m) \div u.d

\* obj.key for the keys the code destructures: own fields of an object,
\* undefined on a primitive (no prototype defines these names)
GetProp(o, k) ==
    IF o.t = "object" /\ k \in DOMAIN o.f THEN o.f[k] ELSE Undefined

\* a destructuring default  { k = d } : applies to undefined only
Default(v, d) == IF v = Undefined THEN d ELSE v

\* destructuring  const {...} = v  throws a TypeError on undefined and null
Destructurable(v) == v.t \notin {"undefined", "null"}

---------------------------------------------------------------------------
(* Strings as character sequences *)

Whitespace == {" ", "TAB", "LF"}

\* String.prototype.toUpperCase on one character
LowerCaseLetters ==
    <<"a", "b", "c", "d", "e", "f", "g", "h", "i", "j", "k", "l", "m",
      "n", "o", "p", "q", "r", "s", "t", "u", "v", "w", "x", "y", "z">>
UpperCaseLetters ==
    <<"A", "B", "C", "D", "E", "F", "G", "H", "I", "J", "K", "L", "M",
      "N", "O", "P", "Q", "R", "S", "T", "U", "V", "W", "X", "Y", "Z">>

toUpperCase(c) ==
    IF c = "sz" THEN <<"S", "S">>
    ELSE IF \E i \in 1..26 : LowerCaseLetters[i] = c
    THEN <<UpperCaseLetters[CHOOSE i \in 1..26 : LowerCaseLetters[i] = c]>>
    ELSE <<c>>

\* String.prototype.slice(0, n)
slice0(s, n) == SubSeq(s, 1, IF Len(s) < n THEN Len(s) ELSE n)

RECURSIVE trimStart(_)
trimStart(s) ==
    IF s # <<>> /\ Head(s) \in Whitespace THEN trimStart(Tail(s)) ELSE s

RECURSIVE trimEnd(_)
trimEnd(s) ==
    IF s # <<>> /\ s[Len(s)] \in Whitespace
    THEN trimEnd(SubSeq(s, 1, Len(s) - 1))
    ELSE s

\* String.prototype.trim
trim(s) == trimEnd(trimStart(s))

\* String.prototype.split(sep) for a one-character separator: the pieces
\* between the occurrences of sep, empty pieces kept
RECURSIVE splitFrom(_, _, _)
splitFrom(s, sep, cur) ==
    IF s = <<>> THEN <<cur>>
    ELSE IF Head(s) = sep THEN <<cur>> \o splitFrom(Tail(s), sep, <<>>)
    ELSE splitFrom(Tail(s), sep, Append(cur, Head(s)))

split(s, sep) == splitFrom(s, sep, <<>>)

\* Array.prototype.join('') of an array of strings
RECURSIVE join(_)
join(ws) == IF ws = <<>> THEN <<>> ELSE Head(ws) \o join(Tail(ws))

Rep(c, n) == [i \in 1..n |-> c]

---------------------------------------------------------------------------
(* The palette and style catalogs *)

Palette(p, s, a, b) == [primary |-> p, secondary |-> s, accent |-> a, bg |-> b]

\* Object.keys(COLOR_PALETTES), in insertion order
PALETTE_KEYS ==
    <<"vibrant", "neon", "pastel", "monochrome", "golden", "ocean", "fire", "galaxy">>

COLOR_PALETTES ==
    [k \in {PALETTE_KEYS[i] : i \in 1..Len(PALETTE_KEYS)} |->
      CASE k = "vibrant" -> <<
             Palette("#FF6B6B", "#4ECDC4", "#FFE66D", "#1A1A2E"),
             Palette("#FF9A3C", "#FF6392", "#B5FFE1", "#16213E"),
             Palette("#7B2FBE", "#EA60DA", "#C0FDFB", "#0F0E17"),
             Palette("#FD3A69", "#FECD1A", "#FF884B", "#1A1A2E")>>
        [] k = "neon" -> <<
             Palette("#39FF14", "#FF073A", "#00FFFF", "#0D0D0D"),
             Palette("#FF00FF", "#00FFFF", "#FFFF00", "#050505"),
             Palette("#BF00FF", "#00FF41", "#FF9900", "#0a0a0a"),
             Palette("#FF6600", "#00FFCC", "#FF0099", "#111111")>>
        [] k = "pastel" -> <<
             Palette("#FFB3BA", "#FFDFBA", "#FFFFBA", "#FFF5F5"),
             Palette("#BAFFC9", "#BAE1FF", "#FFB3DE", "#F0FFF4"),
             Palette("#C9B1FF", "#B1E8FF", "#FFB1C1", "#F5F0FF"),
             Palette("#FFC8DD", "#BDE0FE", "#A2D2FF", "#FEFCE8")>>
        [] k = "monochrome" -> <<
             Palette("#FFFFFF", "#AAAAAA", "#555555", "#0A0A0A"),
             Palette("#F5F5F5", "#CCCCCC", "#888888", "#111111"),
             Palette("#111111", "#444444", "#777777", "#F5F5F5"),
             Palette("#222222", "#666666", "#BBBBBB", "#FFFFFF")>>
        [] k = "golden" -> <<
             Palette("#FFD700", "#FFA500", "#FF8C00", "#1C1408"),
             Palette("#F5C518", "#E8A400", "#D4901A", "#0F0A00"),
             Palette("#FFD700", "#C0A000", "#FFEC8B", "#18140A"),
             Palette("#DAA520", "#B8860B", "#FFD700", "#1A1200")>>
        [] k = "ocean" -> <<
             Palette("#00B4D8", "#0077B6", "#90E0EF", "#03045E"),
             Palette("#48CAE4", "#023E8A", "#ADE8F4", "#03045E"),
             Palette("#06D6A0", "#0496FF", "#FFBC42", "#0A1628"),
             Palette("#4CC9F0", "#4361EE", "#7400B8", "#03045E")>>
        [] k = "fire" -> <<
             Palette("#FF4500", "#FF7519", "#FFD700", "#1A0500"),
             Palette("#FF6D00", "#FF9500", "#FFBE0B", "#150300"),
             Palette("#D62828", "#F77F00", "#FCBF49", "#1A0000"),
             Palette("#E63946", "#457B9D", "#F1FAEE", "#1D3557")>>
        [] k = "galaxy" -> <<
             Palette("#7B2FBE", "#2176FF", "#FF6B6B", "#050510"),
             Palette("#6A0572", "#AB83A1", "#F9A620", "#080016"),
             Palette("#240046", "#7B2FBE", "#FF6B9D", "#03000D"),
             Palette("#560BAD", "#480CA8", "#B5179E", "#03071E")>>]

SHAPE_STYLES ==
    <<"hexagon", "circle", "diamond", "shield", "star", "badge", "infinity", "arch">>
FONT_STYLES ==
    <<"serif", "sans", "mono", "display", "cursive", "geometric", "rounded", "sharp">>
EFFECTS ==
    <<"glow", "shadow", "gradient", "outline", "emboss", "neon", "metallic", "glass">>
LAYOUT_MODES ==
    <<"centered", "stacked", "horizontal", "diagonal", "circular", "split", "badge", "monogram">>
PATTERNS ==
    <<"none", "dots", "lines", "grid", "waves", "hexagons", "triangles", "circuits">>

Range(arr) == {arr[i] : i \in 1..Len(arr)}

---------------------------------------------------------------------------
(* generateLogoConfig(name, options)                                       *)
(*                                                                         *)
(* rnd holds what each Math.random() call site returns (a value n/d in     *)
(* [0, 1)), what randomUUID() returns and what Date.now() returns.         *)

\* names every object inherits from Object.prototype: the `in` operator
\* finds them in COLOR_PALETTES although they are no palette category
OBJECT_PROTOTYPE_KEYS ==
    {"constructor", "toString", "valueOf", "hasOwnProperty", "__proto__"}

\* ToPropertyKey of a filter value
ToPropertyKey(v) ==
    CASE v.t = "string" -> v.s
      [] v.t = "null" -> "null"
      [] v.t = "undefined" -> "undefined"
      [] OTHER -> "[object]"

\* paletteType in COLOR_PALETTES
InColorPalettes(v) ==
    ToPropertyKey(v) \in (DOMAIN COLOR_PALETTES) \cup OBJECT_PROTOTYPE_KEYS

\* arr.includes(val): strict equality with a member
includes(arr, val) == val.t = "string" /\ val.s \in Range(arr)

\* the key pickPalette resolves
pickPaletteKey(paletteType, rnd) ==
    IF paletteType = Str("random")
    THEN PALETTE_KEYS[FloorMul(rnd.key, Len(PALETTE_KEYS)) + 1]
    ELSE IF InColorPalettes(paletteType)
         THEN ToPropertyKey(paletteType)
         ELSE PALETTE_KEYS[1]

\* arr[Math.floor(Math.random() * arr.length)] for arr = COLOR_PALETTES[key]:
\* an inherited property is a function or the prototype object, which holds
\* nothing at an index, so the element is undefined
paletteVariant(key, rnd) ==
    IF key \in DOMAIN COLOR_PALETTES
    THEN COLOR_PALETTES[key][FloorMul(rnd.variant, Len(COLOR_PALETTES[key])) + 1]
    ELSE Undefined

\* { ...x, paletteName: key } : spreading undefined adds no property
pickPalette(paletteType, rnd) ==
    LET key == pickPaletteKey(paletteType, rnd)
        v == paletteVariant(key, rnd)
    IN  IF v = Undefined
        THEN [paletteName |-> key]
        ELSE [primary |-> v.primary, secondary |-> v.secondary,
              accent |-> v.accent, bg |-> v.bg, paletteName |-> key]

\* pick drawing a member whatever the value is
pickAlwaysDraws(arr, val, u) == arr[FloorMul(u, Len(arr)) + 1]

\* pick falling back to the first member, as pickPalette does
pickFirstIfOutside(arr, val, u) ==
    IF val = Str("random") THEN arr[FloorMul(u, Len(arr)) + 1]
    ELSE IF ~includes(arr, val) THEN arr[1]
    ELSE val.s

pick(arr, val, u) ==
    IF val = Str("random") \/ ~includes(arr, val)
    THEN arr[FloorMul(u, Len(arr)) + 1]
    ELSE val.s

\* name.split(' ').map(w => w[0]?.toUpperCase() || '')
RECURSIVE firstLetters(_)
firstLetters(ws) ==
    IF ws = <<>> THEN <<>>
    ELSE <<IF Head(ws) = <<>> THEN <<>> ELSE toUpperCase(Head(ws)[1])>>
         \o firstLetters(Tail(ws))

\* initials without the slice(0, 3)
initialsUncut(name) ==
    LET fromWords == join(firstLetters(split(name, " ")))
    IN  IF fromWords # <<>> THEN fromWords
        ELSE IF name # <<>> THEN toUpperCase(name[1])
        ELSE <<"L">>

initialsOf(name) ==
    LET fromWords == slice0(join(firstLetters(split(name, " "))), 3)
    IN  IF fromWords # <<>> THEN fromWords
        ELSE IF name # <<>> THEN toUpperCase(name[1])
        ELSE <<"L">>

Returned(v) == [threw |-> FALSE, value |-> v]
Thrown(e) == [threw |-> TRUE, error |-> e]

\* the six filter fields after destructuring with their defaults
destructureOptions(options) ==
    LET o == Default(options, Obj(<<>>))
    IN  [paletteType |-> Default(GetProp(o, "paletteType"), Str("random")),
         shapeStyle  |-> Default(GetProp(o, "shapeStyle"), Str("random")),
         fontStyle   |-> Default(GetProp(o, "fontStyle"), Str("random")),
         effect      |-> Default(GetProp(o, "effect"), Str("random")),
         layoutMode  |-> Default(GetProp(o, "layoutMode"), Str("random")),
         pattern     |-> Default(GetProp(o, "pattern"), Str("random"))]

\* control points whose cy1 reuses the draw of cx1
bezierCurveShared(rnd, i) ==
    [cx1 |-> Rat(rnd.bezier[i][1].n * 200 - 100 * rnd.bezier[i][1].d, rnd.bezier[i][1].d),
     cy1 |-> Rat(rnd.bezier[i][1].n * 200 - 100 * rnd.bezier[i][1].d, rnd.bezier[i][1].d),
     cx2 |-> Rat(rnd.bezier[i][3].n * 200 - 100 * rnd.bezier[i][3].d, rnd.bezier[i][3].d),
     cy2 |-> Rat(rnd.bezier[i][4].n * 200 - 100 * rnd.bezier[i][4].d, rnd.bezier[i][4].d)]

bezierCurve(rnd, i) ==
    [cx1 |-> Rat(rnd.bezier[i][1].n * 200 - 100 * rnd.bezier[i][1].d, rnd.bezier[i][1].d),
     cy1 |-> Rat(rnd.bezier[i][2].n * 200 - 100 * rnd.bezier[i][2].d, rnd.bezier[i][2].d),
     cx2 |-> Rat(rnd.bezier[i][3].n * 200 - 100 * rnd.bezier[i][3].d, rnd.bezier[i][3].d),
     cy2 |-> Rat(rnd.bezier[i][4].n * 200 - 100 * rnd.bezier[i][4].d, rnd.bezier[i][4].d)]

\* the returned object, f being the destructured options
logoConfig(name, f, rnd) ==
    [id            |-> rnd.uuid,
     name          |-> name,
     initials      |-> initialsOf(name),
     palette       |-> pickPalette(f.paletteType, rnd),
     shape         |-> pick(SHAPE_STYLES, f.shapeStyle, rnd.shape),
     fontStyle     |-> pick(FONT_STYLES, f.fontStyle, rnd.font),
     effect        |-> pick(EFFECTS, f.effect, rnd.effect),
     layout        |-> pick(LAYOUT_MODES, f.layoutMode, rnd.layout),
     pattern       |-> pick(PATTERNS, f.pattern, rnd.pattern),
     rotation      |-> Rat(rnd.rotation.n * 360, rnd.rotation.d),
     scale         |-> Rat(7 * rnd.scale.d + 6 * rnd.scale.n, 10 * rnd.scale.d),
     shapeSize     |-> Rat(120 * rnd.shapeSize.d + 80 * rnd.shapeSize.n, rnd.shapeSize.d),
     fontSize      |-> Rat(24 * rnd.fontSize.d + 24 * rnd.fontSize.n, rnd.fontSize.d),
     letterSpacing |-> Rat(8 * rnd.letterSpacing.n - 2 * rnd.letterSpacing.d, rnd.letterSpacing.d),
     borderRadius  |-> Rat(50 * rnd.borderRadius.n, rnd.borderRadius.d),
     strokeWidth   |-> Rat(rnd.strokeWidth.d + 4 * rnd.strokeWidth.n, rnd.strokeWidth.d),
     glowIntensity |-> Rat(5 * rnd.glowIntensity.d + 20 * rnd.glowIntensity.n, rnd.glowIntensity.d),
     innerRotation |-> Rat(30 * rnd.innerRotation.n - 15 * rnd.innerRotation.d, rnd.innerRotation.d),
     decorCount    |-> 3 + FloorMul(rnd.decorCount, 8),
     bezierCurves  |-> <<bezierCurve(rnd, 1), bezierCurve(rnd, 2)>>,
     hslShift      |-> FloorMul(rnd.hslShift, 360),
     timestamp     |-> rnd.now]

\* a generator that validates its name argument
generateLogoConfigValidating(name, options, rnd) ==
    IF ~Destructurable(Default(options, Obj(<<>>)))
    THEN Thrown("TypeError")
    ELSE IF Len(trim(name)) = 0 \/ Len(name) > 50
    THEN Thrown("InvalidInput")
    ELSE Returned(logoConfig(name, destructureOptions(options), rnd))

\* name is a string (a character sequence); options is any JavaScript value.
\* The only throw is the destructuring of a null options argument.
generateLogoConfig(name, options, rnd) ==
    IF ~Destructurable(Default(options, Obj(<<>>)))
    THEN Thrown("TypeError")
    ELSE Returned(logoConfig(name, destructureOptions(options), rnd))

---------------------------------------------------------------------------
(* The inputs of the generator under observation *)

U(k) == Rat(k, RandDen)
RandomValues == {U(k) : k \in 0..(RandDen - 1)}

\* a call site the call does not reach draws nothing
NoDraw == Rat(0, 1)

\* every Math.random() call returning u
rndAll(u) ==
    [key |-> u, variant |-> u, shape |-> u, font |-> u, effect |-> u,
     layout |-> u, pattern |-> u,
     rotation |-> u, scale |-> u, shapeSize |-> u, fontSize |-> u,
     letterSpacing |-> u, borderRadius |-> u, strokeWidth |-> u,
     glowIntensity |-> u, innerRotation |-> u, decorCount |-> u,
     bezier |-> <<<<u, u, u, u>>, <<u, u, u, u>>>>, hslShift |-> u,
     uuid |-> 1, now |-> 0]

\* pick reaches Math.random() only for 'random' or a value outside the set
pickDraws(arr, val) == val = Str("random") \/ ~includes(arr, val)

SiteValues(reached) == IF reached THEN RandomValues ELSE {NoDraw}

\* the draws of one call with these options: the enumerated fields' call
\* sites vary independently, the numeric ones return the lowest value
DrawsFor(options) ==
    IF ~Destructurable(Default(options, Obj(<<>>))) THEN {rndAll(NoDraw)}
    ELSE
    LET f == destructureOptions(options)
    IN  {[rndAll(U(0)) EXCEPT !.key = k, !.variant = v, !.shape = s, !.font = fo,
                              !.effect = e, !.layout = l, !.pattern = p] :
            k \in SiteValues(f.paletteType = Str("random")),
            v \in RandomValues,
            s \in SiteValues(pickDraws(SHAPE_STYLES, f.shapeStyle)),
            fo \in SiteValues(pickDraws(FONT_STYLES, f.fontStyle)),
            e \in SiteValues(pickDraws(EFFECTS, f.effect)),
            l \in SiteValues(pickDraws(LAYOUT_MODES, f.layoutMode)),
            p \in SiteValues(pickDraws(PATTERNS, f.pattern))}

\* a filter value: the sentinel, a member (the third of the set), a value
\* outside the set
FilterValues(arr) == {Str("random"), Str(arr[3]), Str("bogus")}

\* paletteType also takes a name inherited from Object.prototype
PaletteFilterValues == FilterValues(PALETTE_KEYS) \cup {Str("toString")}

FilterObjects ==
    {Obj([paletteType |-> pt, shapeStyle |-> ss, fontStyle |-> fs,
          effect |-> ef, layoutMode |-> lm, pattern |-> pa]) :
        pt \in PaletteFilterValues, ss \in FilterValues(SHAPE_STYLES),
        fs \in FilterValues(FONT_STYLES), ef \in FilterValues(EFFECTS),
        lm \in FilterValues(LAYOUT_MODES), pa \in FilterValues(PATTERNS)}

\* options that are no object of six strings
OddOptions ==
    {Undefined, Null, Obj(<<>>), Str("neon"),
     Obj([paletteType |-> Null, shapeStyle |-> Null])}

FilterSelections == FilterObjects \cup OddOptions

\* six members, none the first of its set
ConcreteSelection ==
    Obj([paletteType |-> Str(PALETTE_KEYS[3]), shapeStyle |-> Str(SHAPE_STYLES[3]),
         fontStyle |-> Str(FONT_STYLES[3]), effect |-> Str(EFFECTS[3]),
         layoutMode |-> Str(LAYOUT_MODES[3]), pattern |-> Str(PATTERNS[3])])

NameAlphabet == {"n", "L", " ", "TAB", "sz"}

NexusLabs == <<"N", "e", "x", "u", "s", " ", "L", "a", "b", "s">>
nova == <<"n", "o", "v", "a">>
Acme == <<"A", "c", "m", "e">>

\* names around the 50-character cap
LongNames ==
    {Rep("x", 50), Rep("x", 51), <<" ">> \o Rep("x", 51) \o <<"LF">>,
     Rep("x", 49) \o <<" ", "a", "a">>, <<" ">> \o Acme \o <<" ", " ">>}

\* every string over the alphabet up to MaxNameLen, and the spec's examples
Names ==
    UNION {[1..n -> NameAlphabet] : n \in 0..MaxNameLen} \cup {NexusLabs, nova}

---------------------------------------------------------------------------
(* The generator called once: with every filter selection for one name,   *)
(* and with every name for one filter selection                           *)

GenIdle == [phase |-> "idle"]

\* the call: the arguments are bound (every filter selection for one name,
\* every name for one selection)
GenEnter ==
    /\ gen.phase = "idle"
    /\ \/ \E options \in FilterSelections :
            gen' = [phase |-> "called", name |-> Acme, options |-> options]
       \/ \E name \in Names \cup LongNames :
            gen' = [phase |-> "called", name |-> name, options |-> ConcreteSelection]
    /\ UNCHANGED <<hpc, req, hloc, res, errlog, ui>>

\* the body runs with the draws the random source gives, and returns or throws
GenReturn ==
    /\ gen.phase = "called"
    /\ \E rnd \in DrawsFor(gen.options) :
          gen' = [phase |-> "returned", name |-> gen.name,
                  options |-> gen.options, rnd |-> rnd,
                  out |-> generateLogoConfig(gen.name, gen.options, rnd)]
    /\ UNCHANGED <<hpc, req, hloc, res, errlog, ui>>

---------------------------------------------------------------------------
(* Number conversions of the handler:                                      *)
(* Math.min(Math.max(1, parseInt(count, 10) || 9), 12)                     *)

DigitChar == <<"0", "1", "2", "3", "4", "5", "6", "7", "8", "9">>
IsDigit(c) == c \in Range(DigitChar)
DigitVal(c) == CHOOSE d \in 0..9 : DigitChar[d + 1] = c

\* the decimal digits of a natural number
RECURSIVE Digits(_)
Digits(n) ==
    IF n < 10 THEN <<DigitChar[n + 1]>>
    ELSE Digits(n \div 10) \o <<DigitChar[(n % 10) + 1]>>

\* Number::toString: exponent notation from 10^21 on
NumberToString(v) ==
    LET mant == Digits(v.int) \o (IF v.frac = <<>> THEN <<>> ELSE <<".">> \o v.frac)
    IN  (IF v.sign < 0 THEN <<"-">> ELSE <<>>)
        \o (IF v.exp = 0 THEN mant ELSE mant \o <<"e", "+">> \o Digits(v.exp))

\* ToString of the language, as parseInt applies it to its argument
toJSString(v) ==
    CASE v.t = "string" -> v.s
      [] v.t = "number" -> NumberToString(v)
      [] v.t = "null" -> <<"n", "u", "l", "l">>
      [] v.t = "boolean" ->
           IF v.b THEN <<"t", "r", "u", "e">> ELSE <<"f", "a", "l", "s", "e">>
      [] v.t = "undefined" -> <<"u", "n", "d", "e", "f", "i", "n", "e", "d">>
      [] OTHER -> <<"[", "o", "b", "j", "e", "c", "t", " ", "O", "b", "j", "e", "c", "t", "]">>

NaN == [nan |-> TRUE]
Finite(i) == [nan |-> FALSE, v |-> i]

\* the value of the longest prefix of decimal digits, acc being the value read
RECURSIVE parseDigits(_, _)
parseDigits(s, acc) ==
    IF s # <<>> /\ IsDigit(Head(s))
    THEN parseDigits(Tail(s), acc * 10 + DigitVal(Head(s)))
    ELSE acc

\* parseInt(v, 10): leading white space skipped, an optional sign, then the
\* longest prefix of digits; NaN when there is no digit
parseInt(v) ==
    LET s == trimStart(toJSString(v))
        neg == s # <<>> /\ Head(s) = "-"
        body == IF s # <<>> /\ Head(s) \in {"-", "+"} THEN Tail(s) ELSE s
    IN  IF body = <<>> \/ ~IsDigit(Head(body)) THEN NaN
        ELSE Finite((IF neg THEN -1 ELSE 1) * parseDigits(body, 0))

DEFAULT_COUNT == 9
MAX_COUNT == 12
MAX_NAME == 50

\* x || 9 : NaN and 0 are falsy
OrDefault(x) == IF x.nan \/ x.v = 0 THEN DEFAULT_COUNT ELSE x.v

Max2(a, b) == IF a > b THEN a ELSE b
Min2(a, b) == IF a < b THEN a ELSE b

\* the length of the logos array
logoCount(count) == Min2(Max2(1, OrDefault(parseInt(count))), MAX_COUNT)

---------------------------------------------------------------------------
(* POST /api/generate                                                      *)

\* a body the platform left as text: whether it is JSON, and the value the
\* text denotes
JsonText(valid, denotes) == [t |-> "text", valid |-> valid, denotes |-> denotes]

Body(name, count, filters) ==
    Obj([name |-> name, count |-> count, filters |-> filters])

\* !v
Falsy(v) ==
    \/ v.t \in {"undefined", "null"}
    \/ v.t = "string" /\ v.s = <<>>
    \/ v.t = "number" /\ v.int = 0 /\ v.frac = <<>>
    \/ v.t = "boolean" /\ ~v.b

\* typeof req.body === 'string' ? JSON.parse(req.body) : (req.body || {})
\* JSON.parse throws a SyntaxError on text that is not JSON
parseBody(body) ==
    IF body.t = "text"
    THEN IF body.valid THEN Returned(body.denotes) ELSE Thrown("SyntaxError")
    ELSE Returned(IF Falsy(body) THEN Obj(<<>>) ELSE body)

\* the name check without the trim
nameRejectedUntrimmed(name) == Falsy(name) \/ name.t # "string"

\* !name || typeof name !== 'string' || name.trim().length === 0
nameRejected(name) ==
    Falsy(name) \/ name.t # "string" \/ Len(trim(name.s)) = 0

\* the cut applied before the trim
trimmedNameCutFirst(name) == trim(slice0(name.s, 50))

\* name.trim().slice(0, 50)
trimmedName(name) == slice0(trim(name.s), MAX_NAME)

Response(status, body) == [status |-> status, body |-> body]

\* every Math.random() call of one generateLogoConfig call returns the
\* lowest or the highest value; randomUUID() is fresh per call
HandlerDraws(i) ==
    {[rndAll(u) EXCEPT !.uuid = i] : u \in {U(0), U(RandDen - 1)}}

\* the handler is entered with a request
Receive(r) ==
    /\ hpc = "idle"
    /\ req' = r
    /\ hpc' = "entered"
    /\ UNCHANGED <<gen, hloc, res, errlog, ui>>

\* if (req.method === 'OPTIONS') return res.status(204).end()
Preflight ==
    /\ hpc = "entered"
    /\ req.method = "OPTIONS"
    /\ res' = Append(res, Response(204, Undefined))
    /\ hpc' = "done"
    /\ UNCHANGED <<gen, req, hloc, errlog, ui>>

\* the 405 sent only after the body was parsed
MethodNotAllowedAfterParse ==
    /\ hpc = "entered"
    /\ req.method \notin {"OPTIONS", "POST"}
    /\ hloc' = [parsed |-> parseBody(req.body)]
    /\ res' = Append(res, Response(405, [error |-> "Method not allowed"]))
    /\ hpc' = "done"
    /\ UNCHANGED <<gen, req, errlog, ui>>

\* if (req.method !== 'POST') return res.status(405).json(...)
MethodNotAllowed ==
    /\ hpc = "entered"
    /\ req.method \notin {"OPTIONS", "POST"}
    /\ res' = Append(res, Response(405, [error |-> "Method not allowed"]))
    /\ hpc' = "done"
    /\ UNCHANGED <<gen, req, hloc, errlog, ui>>

\* the try block up to the Array.from call: parse, destructure, validate
ParseAndValidate ==
    /\ hpc = "entered"
    /\ req.method = "POST"
    /\ LET parsed == parseBody(req.body)
       IN  IF parsed.threw
           THEN /\ hpc' = "catch"
                /\ hloc' = [err |-> parsed.error]
                /\ UNCHANGED res
           ELSE IF ~Destructurable(parsed.value)
           THEN /\ hpc' = "catch"
                /\ hloc' = [err |-> "TypeError"]
                /\ UNCHANGED res
           ELSE LET name == GetProp(parsed.value, "name")
                    count == Default(GetProp(parsed.value, "count"), IntNum(DEFAULT_COUNT))
                    filters == Default(GetProp(parsed.value, "filters"), Obj(<<>>))
                IN  IF nameRejected(name)
                    THEN /\ res' = Append(res, Response(400, [error |-> "A logo name is required."]))
                         /\ hpc' = "done"
                         /\ UNCHANGED hloc
                    ELSE /\ hloc' = [trimmed |-> trimmedName(name),
                                     length |-> logoCount(count),
                                     filters |-> filters,
                                     logos |-> <<>>]
                         /\ hpc' = "generating"
                         /\ UNCHANGED res
    /\ UNCHANGED <<gen, req, errlog, ui>>

\* one call of Array.from's map function: () => generateLogoConfig(trimmed, filters)
GenerateOne ==
    /\ hpc = "generating"
    /\ Len(hloc.logos) < hloc.length
    /\ \E rnd \in HandlerDraws(Len(hloc.logos) + 1) :
          LET out == generateLogoConfig(hloc.trimmed, hloc.filters, rnd)
          IN  IF out.threw
              THEN /\ hpc' = "catch"
                   /\ hloc' = [err |-> out.error]
              ELSE /\ hloc' = [hloc EXCEPT !.logos = Append(@, out.value)]
                   /\ UNCHANGED hpc
    /\ UNCHANGED <<gen, req, res, errlog, ui>>

\* return res.status(200).json({ logos, name: trimmed })
Respond200 ==
    /\ hpc = "generating"
    /\ Len(hloc.logos) = hloc.length
    /\ res' = Append(res, Response(200, [logos |-> hloc.logos, name |-> hloc.trimmed]))
    /\ hpc' = "done"
    /\ UNCHANGED <<gen, req, hloc, errlog, ui>>

\* the catch block answering with the exception it caught
Catch500Leaking ==
    /\ hpc = "catch"
    /\ errlog' = Append(errlog, hloc.err)
    /\ res' = Append(res, Response(500, [error |-> hloc.err]))
    /\ hpc' = "done"
    /\ UNCHANGED <<gen, req, hloc, ui>>

\* catch (err) { console.error(...); return res.status(500).json(...) }
Catch500 ==
    /\ hpc = "catch"
    /\ errlog' = Append(errlog, hloc.err)
    /\ res' = Append(res, Response(500, [error |-> "Internal server error"]))
    /\ hpc' = "done"
    /\ UNCHANGED <<gen, req, hloc, ui>>

\* nothing rendered, exported or previewed
UiIdle == [phase |-> "idle"]

HandlerIdle ==
    /\ ui = UiIdle
    /\ hpc = "idle"
    /\ req = Undefined
    /\ hloc = Undefined
    /\ res = <<>>
    /\ errlog = <<>>

InitGen == gen = GenIdle /\ HandlerIdle

NextGen == GenEnter \/ GenReturn

SpecGen == InitGen /\ [][NextGen]_vars

---------------------------------------------------------------------------
(* The requests the handler is observed with *)

\* count values: missing, null, integers around the limits, fractions,
\* 10^21 (printed "1e+21"), strings, a boolean
Counts ==
    {Undefined, Null, Bool(TRUE)}
    \cup {IntNum(i) : i \in {-3, 0, 1, 5, 12, 13, 50}}
    \cup {Number(1, 2, <<"7">>, 0), Number(1, 0, <<"5">>, 0), Number(1, 1, <<>>, 21)}
    \cup {Str(<<"7">>), Str(<<" ", "5">>), Str(<<"a", "b", "c">>), Str(<<"3", "p", "x">>)}

\* names the handler rejects: missing, not a string, empty, white space only
RejectedNames ==
    {Undefined, Null, IntNum(5), IntNum(0), Bool(TRUE), Obj(<<>>),
     Str(<<>>), Str(<<" ", " ", " ">>), Str(<<"TAB", "LF", " ">>)}

HandlerFilters == OddOptions \cup {ConcreteSelection}

Methods == {"POST", "GET", "PUT", "DELETE", "PATCH", "HEAD", "OPTIONS"}

Requests ==
    \* every count, for one name and one filter selection
    {[method |-> "POST", body |-> Body(Str(Acme), c, ConcreteSelection)] : c \in Counts}
    \* every name, two logos
    \cup {[method |-> "POST", body |-> Body(Str(n), IntNum(2), Undefined)] :
            n \in Names \cup LongNames}
    \* every filter selection, one logo
    \cup {[method |-> "POST", body |-> Body(Str(Acme), IntNum(1), f)] :
            f \in FilterSelections}
    \* the rejected names with every count and filters value
    \cup {[method |-> "POST", body |-> Body(n, c, f)] :
            n \in RejectedNames, c \in Counts, f \in HandlerFilters}
    \* bodies that are no object: none, null, text
    \cup {[method |-> "POST", body |-> b] :
            b \in {Undefined, Null,
                   JsonText(FALSE, Undefined),
                   JsonText(TRUE, Null),
                   JsonText(TRUE, IntNum(5)),
                   JsonText(TRUE, Obj(<<>>)),
                   JsonText(TRUE, Body(Str(Acme), IntNum(3), Null)),
                   JsonText(TRUE, Body(Str(Acme), IntNum(3), ConcreteSelection)),
                   JsonText(TRUE, Body(Str(<<" ">>), IntNum(3), Null))}}
    \* every method
    \cup {[method |-> m, body |-> b] :
            m \in Methods,
            b \in {Undefined, Body(Str(Acme), IntNum(2), Undefined),
                   Body(Undefined, Undefined, Null), JsonText(FALSE, Undefined)}}

---------------------------------------------------------------------------
(* One request through the handler *)

Init == gen = GenIdle /\ HandlerIdle

Next ==
    \/ \E r \in Requests : Receive(r)
    \/ Preflight
    \/ MethodNotAllowed
    \/ ParseAndValidate
    \/ GenerateOne
    \/ Respond200
    \/ Catch500

Spec == Init /\ [][Next]_vars

---------------------------------------------------------------------------
(* GET /api/filters, and the option lists of the filter panel *)

PALETTE_OPTS ==
    <<"random", "vibrant", "neon", "pastel", "monochrome", "golden", "ocean",
      "fire", "galaxy">>
SHAPE_OPTS ==
    <<"random", "hexagon", "circle", "diamond", "shield", "star", "badge",
      "infinity", "arch">>
FONT_OPTS ==
    <<"random", "serif", "sans", "mono", "display", "cursive", "geometric",
      "rounded", "sharp">>
EFFECT_OPTS ==
    <<"random", "glow", "shadow", "gradient", "outline", "emboss", "neon",
      "metallic", "glass">>
LAYOUT_OPTS ==
    <<"random", "centered", "stacked", "horizontal", "diagonal", "circular",
      "split", "badge", "monogram">>
PATTERN_OPTS ==
    <<"random", "none", "dots", "lines", "grid", "waves", "hexagons",
      "triangles", "circuits">>

\* the option lists of the panel served as the catalog
filtersCatalogOfPanel ==
    [palettes |-> PALETTE_OPTS, shapes |-> SHAPE_OPTS, fonts |-> FONT_OPTS,
     effects |-> EFFECT_OPTS, layouts |-> LAYOUT_OPTS, patterns |-> PATTERN_OPTS]

\* the body of the 200 response
filtersCatalog ==
    [palettes |-> PALETTE_KEYS, shapes |-> SHAPE_STYLES, fonts |-> FONT_STYLES,
     effects |-> EFFECTS, layouts |-> LAYOUT_MODES, patterns |-> PATTERNS]

\* the chips of the panel, by the key of the draft they set
panelOptions ==
    [palette |-> PALETTE_OPTS, shape |-> SHAPE_OPTS, font |-> FONT_OPTS,
     effect |-> EFFECT_OPTS, layout |-> LAYOUT_OPTS, pattern |-> PATTERN_OPTS]

\* reset: every field of the draft 'random'
DEFAULT_FILTERS ==
    [palette |-> "random", shape |-> "random", font |-> "random",
     effect |-> "random", layout |-> "random", pattern |-> "random"]

\* the filters object generate() posts for the applied filters
postedFilters(activeF) ==
    Obj([paletteType |-> Str(activeF.palette), shapeStyle |-> Str(activeF.shape),
         fontStyle |-> Str(activeF.font), effect |-> Str(activeF.effect),
         layoutMode |-> Str(activeF.layout), pattern |-> Str(activeF.pattern)])

\* the catalog list a filter of generateLogoConfig corresponds to
catalogListOf ==
    [paletteType |-> "palettes", shapeStyle |-> "shapes", fontStyle |-> "fonts",
     effect |-> "effects", layoutMode |-> "layouts", pattern |-> "patterns"]

\* the filters handler is entered (by a client that has generated nothing)
FiltersReceive(m) ==
    /\ hpc = "idle"
    /\ gen.phase = "idle"
    /\ req' = [method |-> m]
    /\ hpc' = "entered"
    /\ UNCHANGED <<gen, hloc, res, errlog, ui>>

\* if (req.method !== 'GET') return res.status(405).json(...)
FiltersMethodNotAllowed ==
    /\ hpc = "entered"
    /\ req.method # "GET"
    /\ res' = Append(res, Response(405, [error |-> "Method not allowed"]))
    /\ hpc' = "done"
    /\ UNCHANGED <<gen, req, hloc, errlog, ui>>

\* return res.status(200).json({ palettes: ..., patterns: PATTERNS })
FiltersRespond200 ==
    /\ hpc = "entered"
    /\ req.method = "GET"
    /\ res' = Append(res, Response(200, filtersCatalog))
    /\ hpc' = "done"
    /\ UNCHANGED <<gen, req, hloc, errlog, ui>>

\* a value the catalog response lists is sent back as the corresponding
\* filter, the other filters left out
CatalogSendBack ==
    /\ hpc = "done"
    /\ res[1].status = 200
    /\ gen.phase = "idle"
    /\ \E k \in DOMAIN catalogListOf :
          LET list == res[1].body[catalogListOf[k]]
          IN  \E i \in 1..Len(list) :
                gen' = [phase |-> "called", name |-> Acme,
                        options |-> Obj(k :> Str(list[i]))]
    /\ UNCHANGED <<hpc, req, hloc, res, errlog, ui>>

\* one chip of the panel is set on the reset draft, the draft applied and
\* posted by generate(); the panel never asks for the catalog
PanelApply ==
    /\ hpc = "idle"
    /\ gen.phase = "idle"
    /\ \E key \in DOMAIN panelOptions :
          \E i \in 1..Len(panelOptions[key]) :
             LET draft == [DEFAULT_FILTERS EXCEPT ![key] = panelOptions[key][i]]
             IN  gen' = [phase |-> "called", name |-> Acme,
                         options |-> postedFilters(draft)]
    /\ UNCHANGED <<hpc, req, hloc, res, errlog, ui>>

NextFilters ==
    \/ \E m \in Methods : FiltersReceive(m)
    \/ FiltersMethodNotAllowed
    \/ FiltersRespond200
    \/ CatalogSendBack
    \/ PanelApply
    \/ GenReturn

SpecFilters == Init /\ [][NextFilters]_vars

---------------------------------------------------------------------------
(* The 2D renderer (LogoCanvas.jsx): the calls it issues on the canvas     *)
(* context, in order.  Coordinates are rationals; angles and the values of *)
(* Math.cos / Math.sin are kept as terms of their arguments.               *)

Q(i) == Rat(i, 1)
RMul(a, n, d) == Rat(a.n * n, a.d * d)
RAdd(a, b) == Rat(a.n * b.d + b.n * a.d, a.d * b.d)
RLess(a, b) == a.n * b.d < b.n * a.d
RMax(a, b) == IF RLess(a, b) THEN b ELSE a
RMin(a, b) == IF RLess(b, a) THEN b ELSE a

\* one call on the context, or one assignment to a property of it
Call(op, args) == [op |-> op, args |-> args]
Assign(prop, v) == [op |-> "set", args |-> <<prop, v>>]

RECURSIVE Concat(_)
Concat(seqs) == IF seqs = <<>> THEN <<>> ELSE Head(seqs) \o Concat(Tail(seqs))

\* for (let x = 0; x < limit; x += step): the values x takes
LoopValues(limit, step) == [i \in 1..((limit + step - 1) \div step) |-> (i - 1) * step]

PATTERN_STEP == 20
CIRCUIT_NODES == 10

\* the point c + rad * fn(angle), the angle being PI * i / half - PI / 2
\* + rotation (half is the number of steps of half a revolution)
Vertex(c, rad, i, half, rotation, fn) ==
    [centre |-> c, radius |-> rad, step |-> <<i, half>>, rotation |-> rotation, fn |-> fn]

\* moveTo for the first vertex, lineTo for the others
vertexCall(i, x, y) == Call(IF i = 0 THEN "moveTo" ELSE "lineTo", <<x, y>>)

\* polygonPath(ctx, cx, cy, r, sides, rotation): the angle of vertex i is
\* 2 PI i / sides - PI / 2 + rotation; sides is even at every call
polygonPath(cx, cy, r, sides, rotation) ==
    <<Call("beginPath", <<>>)>>
    \o [k \in 1..sides |->
          vertexCall(k - 1, Vertex(cx, r, 2 * (k - 1), sides, rotation, "cos"),
                            Vertex(cy, r, 2 * (k - 1), sides, rotation, "sin"))]
    \o <<Call("closePath", <<>>)>>

\* starPath(ctx, cx, cy, outerR, innerR, points, rotation = 0): the angle
\* of vertex i is PI i / points - PI / 2
starPath(cx, cy, outerR, innerR, points) ==
    <<Call("beginPath", <<>>)>>
    \o [k \in 1..(points * 2) |->
          LET r == IF (k - 1) % 2 = 0 THEN outerR ELSE innerR
          IN  vertexCall(k - 1, Vertex(cx, r, k - 1, points, "0", "cos"),
                                Vertex(cy, r, k - 1, points, "0", "sin"))]
    \o <<Call("closePath", <<>>)>>

\* drawPattern(ctx, size, pattern, color); rnd[i] are the two Math.random()
\* values of the i-th 'circuits' node
drawPattern(size, pattern, color, rnd) ==
    LET s == PATTERN_STEP
        xs == LoopValues(size, s)
        dot(x, y) ==
            <<Call("beginPath", <<>>), Call("arc", <<Q(x), Q(y), Rat(3, 2), "0", "2PI">>),
              Assign("fillStyle", color), Call("fill", <<>>)>>
        dotColumn(x) == LET at(y) == dot(x, y) IN Concat([k \in 1..Len(xs) |-> at(xs[k])])
        line(i) ==
            <<Call("beginPath", <<>>), Call("moveTo", <<Q(i), Q(0)>>),
              Call("lineTo", <<Q(0), Q(i)>>), Call("stroke", <<>>)>>
        vertical(x) ==
            <<Call("beginPath", <<>>), Call("moveTo", <<Q(x), Q(0)>>),
              Call("lineTo", <<Q(x), Q(size)>>), Call("stroke", <<>>)>>
        horizontal(y) ==
            <<Call("beginPath", <<>>), Call("moveTo", <<Q(0), Q(y)>>),
              Call("lineTo", <<Q(size), Q(y)>>), Call("stroke", <<>>)>>
        triangle(x, y) ==
            <<Call("beginPath", <<>>), Call("moveTo", <<Q(x), Q(y + s)>>),
              Call("lineTo", <<Rat(2 * x + s, 2), Q(y)>>),
              Call("lineTo", <<Q(x + s), Q(y + s)>>),
              Call("closePath", <<>>), Call("stroke", <<>>)>>
        triangleColumn(x) == LET at(y) == triangle(x, y) IN Concat([k \in 1..Len(xs) |-> at(xs[k])])
        \* row < size / s + 1
        cells == LoopValues(size + s, s)
        hexagon(row, col) ==
            polygonPath(Rat(col * s * 170 + (row % 2) * s * 85, 100), Rat(row * s * 15, 10),
                        Rat(s, 2), 6, "PI/6")
            \o <<Call("stroke", <<>>)>>
        hexagonRow(y) == LET at(x) == hexagon(y \div s, x \div s) IN Concat([k \in 1..Len(cells) |-> at(cells[k])])
        wavePoint(x, y) ==
            Call("lineTo", <<Q(x), [base |-> y, times |-> 5, sin |-> Rat(x * 8, 100)]>>)
        wave(y) ==
            <<Call("beginPath", <<>>), Call("moveTo", <<Q(0), Q(y)>>)>>
            \o (LET at(x) == <<wavePoint(x, y)>> IN Concat([k \in 1..Len(LoopValues(size, 4)) |-> at(LoopValues(size, 4)[k])]))
            \o <<Call("stroke", <<>>)>>
        circuit(i) ==
            LET x == RMul(rnd[i][1], size, 1)
                y == RMul(rnd[i][2], size, 1)
            IN  <<Call("beginPath", <<>>), Call("arc", <<x, y, Q(3), "0", "2PI">>),
                  Call("stroke", <<>>),
                  Call("beginPath", <<>>), Call("moveTo", <<x, y>>),
                  Call("lineTo", <<RAdd(x, Q(40)), y>>),
                  Call("lineTo", <<RAdd(x, Q(40)), RAdd(y, Q(40))>>),
                  Call("stroke", <<>>)>>
    IN  <<Assign("globalAlpha", Rat(6, 100)), Assign("strokeStyle", color),
          Assign("lineWidth", Rat(1, 2))>>
        \o (CASE pattern = "dots" -> Concat([k \in 1..Len(xs) |-> dotColumn(xs[k])])
              [] pattern = "lines" -> Concat([k \in 1..Len(LoopValues(size * 2, s)) |-> line(LoopValues(size * 2, s)[k])])
              [] pattern = "grid" -> Concat([k \in 1..Len(xs) |-> vertical(xs[k])])
                                  \o Concat([k \in 1..Len(xs) |-> horizontal(xs[k])])
              [] pattern = "triangles" -> Concat([k \in 1..Len(xs) |-> triangleColumn(xs[k])])
              [] pattern = "hexagons" -> Concat([k \in 1..Len(cells) |-> hexagonRow(cells[k])])
              [] pattern = "waves" -> Concat([k \in 1..Len(xs) |-> wave(xs[k])])
              [] pattern = "circuits" ->
                   Concat([i \in 1..CIRCUIT_NODES |-> circuit(i)])
              [] OTHER -> <<>>)
        \o <<Assign("globalAlpha", Q(1))>>

\* String.prototype.toUpperCase
upperCase(str) == join([i \in 1..Len(str) |-> toUpperCase(str[i])])

\* String.prototype.slice(n)
sliceFrom(str, n) == SubSeq(str, n + 1, Len(str))

FONT_MAP ==
    [serif |-> "Georgia, \"Times New Roman\", serif",
     sans |-> "\"Inter\", \"Helvetica Neue\", sans-serif",
     mono |-> "\"JetBrains Mono\", \"Courier New\", monospace",
     display |-> "\"Space Grotesk\", \"Arial Black\", sans-serif",
     cursive |-> "\"Palatino Linotype\", \"Book Antiqua\", Palatino, serif",
     geometric |-> "\"Futura\", \"Century Gothic\", \"Apple Gothic\", sans-serif",
     rounded |-> "\"Nunito\", \"Varela Round\", sans-serif",
     sharp |-> "\"Oswald\", \"Arial Narrow\", sans-serif"]

\* every shape drawn by the default case
buildShapeDefault(shape, cx, cy, r) == polygonPath(cx, cy, r, 6, "0")

\* buildShape(ctx, shape, cx, cy, r): the path of the shape, a function of
\* its arguments alone; one case per shape, the default a hexagon that is
\* not rotated
buildShape(shape, cx, cy, r) ==
    LET up(n, d) == RAdd(cy, RMul(r, -n, d))
        down(n, d) == RAdd(cy, RMul(r, n, d))
        left(n, d) == RAdd(cx, RMul(r, -n, d))
        right(n, d) == RAdd(cx, RMul(r, n, d))
    IN  CASE shape = "circle" ->
               <<Call("beginPath", <<>>), Call("arc", <<cx, cy, r, "0", "2PI">>)>>
          [] shape = "hexagon" -> polygonPath(cx, cy, r, 6, "PI/6")
          [] shape = "diamond" -> polygonPath(cx, cy, r, 4, "0")
          [] shape = "shield" ->
               <<Call("beginPath", <<>>),
                 Call("moveTo", <<cx, up(1, 1)>>),
                 Call("lineTo", <<right(1, 1), up(4, 10)>>),
                 Call("lineTo", <<right(1, 1), down(2, 10)>>),
                 Call("bezierCurveTo", <<right(1, 1), down(8, 10), cx, down(1, 1),
                                         cx, down(1, 1)>>),
                 Call("bezierCurveTo", <<cx, down(1, 1), left(1, 1), down(8, 10),
                                         left(1, 1), down(2, 10)>>),
                 Call("lineTo", <<left(1, 1), up(4, 10)>>),
                 Call("closePath", <<>>)>>
          [] shape = "star" -> starPath(cx, cy, r, RMul(r, 45, 100), 5)
          [] shape = "badge" -> polygonPath(cx, cy, r, 8, "PI/8")
          [] shape = "infinity" ->
               \* w = r * 0.6
               <<Call("beginPath", <<>>),
                 Call("moveTo", <<cx, cy>>),
                 Call("bezierCurveTo", <<left(6, 10), up(1, 1), left(16, 10), up(1, 1),
                                         left(16, 10), cy>>),
                 Call("bezierCurveTo", <<left(16, 10), down(1, 1), left(6, 10), down(1, 1),
                                         cx, cy>>),
                 Call("bezierCurveTo", <<right(6, 10), up(1, 1), right(16, 10), up(1, 1),
                                         right(16, 10), cy>>),
                 Call("bezierCurveTo", <<right(16, 10), down(1, 1), right(6, 10), down(1, 1),
                                         cx, cy>>),
                 Call("closePath", <<>>)>>
          [] shape = "arch" ->
               <<Call("beginPath", <<>>),
                 Call("arc", <<cx, cy, r, "PI", "0">>),
                 Call("lineTo", <<right(1, 1), down(6, 10)>>),
                 Call("bezierCurveTo", <<right(5, 10), down(11, 10), left(5, 10), down(11, 10),
                                         left(1, 1), down(6, 10)>>),
                 Call("closePath", <<>>)>>
          [] OTHER -> polygonPath(cx, cy, r, 6, "0")

\* a point at radius rad and angle 2PI * i / n around (cx, cy)
OnCircle(c, rad, i, n, fn) == [centre |-> c, radius |-> rad, turn |-> <<i, n>>, fn |-> fn]

\* the dots as bare arcs, never filled, and no Bezier arcs
drawDecorsBareDots(config, cx, cy, r) ==
    [k \in 1..config.decorCount |->
        Call("arc", <<OnCircle(cx, RMul(r, 85, 100), k - 1, config.decorCount, "cos"),
                      OnCircle(cy, RMul(r, 85, 100), k - 1, config.decorCount, "sin"),
                      Q(2 + ((k - 1) % 3)), "0", "2PI">>)]

\* drawDecors(ctx, config, cx, cy, r)
drawDecors(config, cx, cy, r) ==
    LET palette == config.palette
        glowing == config.effect \in {"glow", "neon"}
        dot(i) ==
            <<Call("beginPath", <<>>),
              Call("arc", <<OnCircle(cx, RMul(r, 85, 100), i, config.decorCount, "cos"),
                            OnCircle(cy, RMul(r, 85, 100), i, config.decorCount, "sin"),
                            Q(2 + (i % 3)), "0", "2PI">>),
              Assign("fillStyle", IF i % 2 = 0 THEN palette.accent ELSE palette.secondary),
              Assign("shadowBlur", Q(IF glowing THEN 10 ELSE 0)),
              Assign("shadowColor", palette.accent),
              Call("fill", <<>>),
              Assign("shadowBlur", Q(0))>>
        arc(i) ==
            LET bc == config.bezierCurves[i + 1]
                \* alpha = 0.2 - i * 0.05
                alpha == Rat(20 - 5 * i, 100)
            IN  IF alpha.n <= 0 THEN <<>>
                ELSE <<Call("beginPath", <<>>),
                       Call("moveTo", <<cx, RAdd(cy, RMul(r, -1, 2))>>),
                       Call("bezierCurveTo",
                            <<RAdd(cx, bc.cx1), RAdd(cy, bc.cy1), RAdd(cx, bc.cx2),
                              RAdd(cy, bc.cy2), cx, RAdd(cy, RMul(r, 1, 2))>>),
                       Assign("strokeStyle", IF i = 0 THEN palette.primary ELSE palette.secondary),
                       Assign("globalAlpha", alpha),
                       Assign("lineWidth", Q(1)),
                       Call("stroke", <<>>),
                       Assign("globalAlpha", Q(1))>>
    IN  Concat([i \in 1..config.decorCount |-> dot(i - 1)])
        \o Concat([i \in 1..Len(config.bezierCurves) |-> arc(i - 1)])

\* ctx.font = `${weight} ${px}px ${font}`
Font(weight, px, font) == Assign("font", <<weight, px, font>>)

\* drawText(ctx, config, cx, cy, r, size)
drawText(config, cx, cy, r, size) ==
    LET name == config.name
        palette == config.palette
        effect == config.effect
        font == IF config.fontStyle \in DOMAIN FONT_MAP
                THEN FONT_MAP[config.fontStyle] ELSE FONT_MAP.sans
        safeFontSize == RMax(Q(10), RMin(config.fontSize, Rat(size * 22, 100)))
        spacing == Assign("letterSpacing", config.letterSpacing)
        shadow ==
            IF effect \in {"glow", "neon"}
            THEN <<Assign("shadowBlur", Q(20)), Assign("shadowColor", palette.primary)>>
            ELSE IF effect = "shadow"
            THEN <<Assign("shadowBlur", Q(8)), Assign("shadowColor", "rgba(0,0,0,0.7)"),
                   Assign("shadowOffsetX", Q(2)), Assign("shadowOffsetY", Q(2))>>
            ELSE <<>>
        fillStyle ==
            IF effect \in {"gradient", "metallic"}
            THEN <<Call("createLinearGradient",
                        <<RAdd(cx, RMul(r, -1, 1)), cy, RAdd(cx, r), cy>>),
                   Call("addColorStop", <<Q(0), palette.primary>>),
                   Call("addColorStop", <<Rat(1, 2), palette.accent>>),
                   Call("addColorStop", <<Q(1), palette.secondary>>),
                   Assign("fillStyle", "grad")>>
            ELSE <<Assign("fillStyle", palette.primary)>>
        stacked ==
            LET parts == split(name, " ")
                part(i) ==
                    <<Font("700", safeFontSize, font),
                      Call("fillText", <<upperCase(parts[i + 1]), cx,
                                         [top |-> Len(parts), line |-> i]>>)>>
            IN  Concat([i \in 1..Len(parts) |-> part(i - 1)])
        circular ==
            LET text == upperCase(name)
                steps == IF Len(text) - 1 = 0 THEN 1 ELSE Len(text) - 1
                char(i) ==
                    <<Call("save", <<>>),
                      Call("translate", <<[arc |-> <<i, steps>>, fn |-> "cos"],
                                          [arc |-> <<i, steps>>, fn |-> "sin"]>>),
                      Call("rotate", <<[arc |-> <<i, steps>>, fn |-> "angle"]>>),
                      Call("fillText", <<SubSeq(text, i + 1, i + 1), Q(0), Q(0)>>),
                      Call("restore", <<>>)>>
            IN  <<Font("700", RMax(Q(8), RMul(safeFontSize, 75, 100)), font)>>
                \o Concat([i \in 1..Len(text) |-> char(i - 1)])
        diagonal ==
            <<Call("save", <<>>), Call("translate", <<cx, cy>>),
              Call("rotate", <<Rat(-25, 100)>>),
              Font("700", safeFontSize, font),
              Call("fillText", <<upperCase(name), Q(0), Q(0)>>),
              Call("restore", <<>>)>>
        splitLayout ==
            LET mid == (Len(name) + 1) \div 2
            IN  <<Font("800", safeFontSize, font),
                  Assign("fillStyle", palette.primary),
                  Call("fillText", <<upperCase(slice0(name, mid)), cx,
                                     RAdd(cy, RMul(safeFontSize, -4, 10))>>),
                  Assign("fillStyle", palette.secondary),
                  Call("fillText", <<upperCase(sliceFrom(name, mid)), cx,
                                     RAdd(cy, RMul(safeFontSize, 11, 10))>>)>>
        centered ==
            <<Font("800", safeFontSize, font), spacing,
              Call("fillText", <<upperCase(name), cx, cy>>),
              Font("400", RMax(Q(6), RMul(safeFontSize, 45, 100)), font),
              Assign("fillStyle", palette.secondary),
              Assign("globalAlpha", Rat(7, 10)),
              Call("fillText", <<<<"B", "R", "A", "N", "D">>, cx,
                                 RAdd(cy, RMul(safeFontSize, 11, 10))>>),
              Assign("globalAlpha", Q(1))>>
        monogram ==
            <<Font("800", RMul(safeFontSize, 22, 10), font), spacing,
              Call("fillText", <<config.initials, cx, cy>>)>>
        outline ==
            IF effect \in {"outline", "emboss"}
            THEN <<Assign("shadowBlur", Q(0)), Assign("shadowOffsetX", Q(0)),
                   Assign("shadowOffsetY", Q(0)),
                   Assign("strokeStyle", palette.secondary),
                   Assign("lineWidth", Rat(3, 2)),
                   Font("800", safeFontSize, font),
                   Call("strokeText", <<upperCase(name), cx, cy>>)>>
            ELSE <<>>
    IN  <<Call("save", <<>>), Assign("textAlign", "center"),
          Assign("textBaseline", "middle")>>
        \o shadow \o fillStyle
        \o (CASE config.layout = "monogram" -> monogram
              [] config.layout = "stacked" -> stacked
              [] config.layout = "circular" -> circular
              [] config.layout = "diagonal" -> diagonal
              [] config.layout = "split" -> splitLayout
              [] OTHER -> centered)
        \o outline
        \o <<Call("restore", <<>>)>>

\* `${colour}${alpha}`
WithAlpha(colour, alpha) == <<colour, alpha>>

\* drawLogo(canvas, config, logicalSize) on an existing canvas
drawLogo(config, size, rnd) ==
    LET palette == config.palette
        effect == config.effect
        cx == Rat(size, 2)
        cy == Rat(size, 2)
        r == Rat(size * 34, 100)
        background ==
            <<Call("clearRect", <<Q(0), Q(0), Q(size), Q(size)>>),
              Call("createRadialGradient", <<cx, cy, Q(0), cx, cy, Rat(size * 75, 100)>>),
              Call("addColorStop", <<Q(0), [shiftHue |-> palette.bg, by |-> 20]>>),
              Call("addColorStop", <<Q(1), palette.bg>>),
              Assign("fillStyle", "bgGrad"),
              Call("roundRect", <<Q(0), Q(0), Q(size), Q(size), config.borderRadius>>),
              Call("fill", <<>>)>>
        glowRing ==
            IF effect \in {"glow", "neon", "glass"}
            THEN <<Call("save", <<>>),
                   Assign("shadowBlur", config.glowIntensity),
                   Assign("shadowColor", palette.primary)>>
                 \o buildShape(config.shape, cx, cy, RMul(r, 105, 100))
                 \o <<Assign("strokeStyle", WithAlpha(palette.primary, "44")),
                      Assign("lineWidth", RMul(config.strokeWidth, 2, 1)),
                      Call("stroke", <<>>), Call("restore", <<>>)>>
            ELSE <<>>
        fill ==
            IF effect \in {"gradient", "glass", "metallic"}
            THEN <<Call("createLinearGradient",
                        <<RAdd(cx, RMul(r, -1, 1)), RAdd(cy, RMul(r, -1, 1)),
                          RAdd(cx, r), RAdd(cy, r)>>),
                   Call("addColorStop", <<Q(0), WithAlpha(palette.primary, "CC")>>),
                   Call("addColorStop", <<Rat(1, 2), WithAlpha(palette.secondary, "99")>>),
                   Call("addColorStop", <<Q(1), WithAlpha(palette.accent, "CC")>>),
                   Assign("fillStyle", <<"fill", "gradient">>)>>
            ELSE <<Assign("fillStyle", WithAlpha(palette.primary, "22"))>>
        mainShape ==
            buildShape(config.shape, cx, cy, r)
            \o <<Call("save", <<>>)>> \o fill
            \o <<Assign("shadowBlur", Q(IF effect = "shadow" THEN 20 ELSE 0)),
                 Assign("shadowColor", "rgba(0,0,0,0.5)"),
                 Call("fill", <<>>),
                 Assign("strokeStyle", palette.primary),
                 Assign("lineWidth", config.strokeWidth)>>
            \o (IF effect = "neon"
                THEN <<Assign("shadowBlur", config.glowIntensity),
                       Assign("shadowColor", palette.primary)>>
                ELSE <<>>)
            \o <<Call("stroke", <<>>), Call("restore", <<>>)>>
        innerShape ==
            buildShape(config.shape, cx, cy, RMul(r, 72, 100))
            \o <<Call("save", <<>>),
                 Assign("strokeStyle", palette.accent),
                 Assign("lineWidth", RMul(config.strokeWidth, 1, 2)),
                 Assign("globalAlpha", Rat(45, 100)),
                 Call("stroke", <<>>), Call("restore", <<>>)>>
    IN  background
        \o drawPattern(size, config.pattern, palette.primary, rnd)
        \o glowRing \o mainShape \o innerShape
        \o drawDecors(config, cx, cy, r)
        \o drawText(config, cx, cy, r, size)

\* renderToDataURL(config, size): a fresh canvas of that size, drawn on and
\* encoded; the image is the raster of the calls issued
renderToDataURL(config, size, rnd) ==
    [width |-> size, height |-> size,
     calls |-> <<Call("setTransform", <<1, 0, 0, 1, 0, 0>>)>> \o drawLogo(config, size, rnd)]

---------------------------------------------------------------------------
(* The 3D renderer's text (Logo3D.jsx) *)

\* layout === 'monogram' ? initials : name?.toUpperCase?.() || name || 'LOGO'
LogoText(config) ==
    IF config.layout = "monogram" THEN config.initials
    ELSE IF upperCase(config.name) # <<>> THEN upperCase(config.name)
    ELSE IF config.name # <<>> THEN config.name
    ELSE <<"L", "O", "G", "O">>

\* the geometry ShapeMesh selects
Geometry(shape) ==
    CASE shape = "circle" -> [type |-> "sphereGeometry", args |-> <<Q(1), 64, 64>>]
      [] shape = "diamond" -> [type |-> "octahedronGeometry", args |-> <<Q(1), 0>>]
      [] shape = "hexagon" ->
           [type |-> "cylinderGeometry", args |-> <<Q(1), Q(1), Rat(3, 10), 6>>]
      [] shape = "star" ->
           [type |-> "torusGeometry", args |-> <<Rat(8, 10), Rat(35, 100), 16, 5>>]
      [] shape = "badge" ->
           [type |-> "cylinderGeometry", args |-> <<Q(1), Q(1), Rat(3, 10), 8>>]
      [] shape = "arch" ->
           [type |-> "torusGeometry", args |-> <<Rat(9, 10), Rat(25, 100), 16, 32, "PI">>]
      [] shape = "infinity" ->
           [type |-> "torusKnotGeometry", args |-> <<Rat(7, 10), Rat(25, 100), 120, 16, 2, 3>>]
      \* case 'shield': default:
      [] OTHER -> [type |-> "boxGeometry", args |-> <<Rat(14, 10), Rat(18, 10), Rat(3, 10)>>]

\* <ShapeMesh shape palette effect />: the geometry and matProps
ShapeMesh(shape, palette, effect) ==
    [mesh |-> "shape",
     geometry |-> Geometry(shape),
     material |->
        [color |-> palette.primary,
         metalness |-> IF effect = "metallic" THEN Rat(9, 10)
                       ELSE IF effect = "glass" THEN Rat(1, 10) ELSE Rat(4, 10),
         roughness |-> IF effect = "metallic" THEN Rat(1, 10)
                       ELSE IF effect = "glass" THEN Q(0) ELSE Rat(5, 10),
         transparent |-> effect = "glass",
         opacity |-> IF effect = "glass" THEN Rat(65, 100) ELSE Q(1),
         envMapIntensity |-> Rat(15, 10)]]

\* <AccentRing palette />
AccentRing(palette) ==
    [mesh |-> "ring",
     geometry |-> [type |-> "torusGeometry", args |-> <<Rat(16, 10), Rat(3, 100), 16, 64>>],
     material |-> [color |-> palette.accent, emissive |-> palette.accent,
                   emissiveIntensity |-> Rat(6, 10), metalness |-> Rat(8, 10),
                   roughness |-> Rat(2, 10)]]

\* the particles of the orbit (count = 12)
ORBIT_PARTICLES == 12

\* <OrbitParticles palette />
OrbitParticles(palette) ==
    [k \in 1..ORBIT_PARTICLES |->
        LET i == k - 1
            colour == IF i % 2 = 0 THEN palette.accent ELSE palette.secondary
        IN  [mesh |-> "particle",
             geometry |-> [type |-> "sphereGeometry",
                           args |-> <<Rat(4 + (i % 3) * 2, 100), 8, 8>>],
             material |-> [color |-> colour, emissive |-> colour,
                           emissiveIntensity |-> Q(1)]]]

\* a scene whose colours are the palette's rotated by config.hslShift
SceneHueShifted(config, compact) ==
    LET palette == [k \in DOMAIN config.palette |->
                       IF k = "paletteName" THEN config.palette[k]
                       ELSE [shiftHue |-> config.palette[k], by |-> config.hslShift]]
    IN  [lights |->
            <<[type |-> "ambientLight", intensity |-> Rat(3, 10)],
              [type |-> "pointLight", position |-> <<4, 4, 4>>, intensity |-> Q(2),
               color |-> palette.primary],
              [type |-> "pointLight", position |-> <<-4, -3, -2>>, intensity |-> Rat(15, 10),
               color |-> palette.secondary],
              [type |-> "pointLight", position |-> <<0, 5, -4>>, intensity |-> Q(1),
               color |-> palette.accent]>>,
         environment |-> ~compact,
         float |-> <<ShapeMesh(config.shape, palette, config.effect),
                     AccentRing(palette)>>
                   \o OrbitParticles(palette)
                   \o <<[text |-> LogoText(config), color |-> palette.primary]>>]

\* <Scene config compact />: the lights, then what floats
Scene(config, compact) ==
    LET palette == config.palette
    IN  [lights |->
            <<[type |-> "ambientLight", intensity |-> Rat(3, 10)],
              [type |-> "pointLight", position |-> <<4, 4, 4>>, intensity |-> Q(2),
               color |-> palette.primary],
              [type |-> "pointLight", position |-> <<-4, -3, -2>>, intensity |-> Rat(15, 10),
               color |-> palette.secondary],
              [type |-> "pointLight", position |-> <<0, 5, -4>>, intensity |-> Q(1),
               color |-> palette.accent]>>,
         environment |-> ~compact,
         float |-> <<ShapeMesh(config.shape, palette, config.effect),
                     AccentRing(palette)>>
                   \o OrbitParticles(palette)
                   \o <<[text |-> LogoText(config), color |-> palette.primary]>>]

---------------------------------------------------------------------------
(* One configuration rendered: twice by the 2D renderer at one size, and   *)
(* by the 3D renderer                                                      *)

\* every layout with every effect, and every pattern with every shape
RenderSelections ==
    {Obj([paletteType |-> Str("neon"), shapeStyle |-> Str("circle"),
          fontStyle |-> Str("mono"), effect |-> Str(EFFECTS[e]),
          layoutMode |-> Str(LAYOUT_MODES[l]), pattern |-> Str("none")]) :
        e \in 1..Len(EFFECTS), l \in 1..Len(LAYOUT_MODES)}
    \cup
    {Obj([paletteType |-> Str("ocean"), shapeStyle |-> Str(SHAPE_STYLES[sh]),
          fontStyle |-> Str("serif"), effect |-> Str("glow"),
          layoutMode |-> Str("centered"), pattern |-> Str(PATTERNS[p])]) :
        sh \in 1..Len(SHAPE_STYLES), p \in 1..Len(PATTERNS)}

RenderNames == {NexusLabs, <<"n">>}

\* configurations of every decorCount
DecorConfigs ==
    {generateLogoConfig(NexusLabs, ConcreteSelection,
                        [rndAll(U(1)) EXCEPT !.decorCount = Rat(k, NumericDen)]).value :
        k \in 0..(NumericDen - 1)}

\* the configurations handed to the renderers: generated ones
RenderConfigs ==
    {generateLogoConfig(n, sel, rndAll(U(1))).value :
        n \in RenderNames, sel \in RenderSelections}
    \cup DecorConfigs

\* target sizes in CSS pixels
RenderSizes == {40, 50}

\* the Math.random() values one drawPattern call gets: two per node when the
\* pattern is 'circuits', none otherwise
PatternDraws(pattern) ==
    IF pattern = "circuits"
    THEN {[i \in 1..CIRCUIT_NODES |-> <<u, v>>] : u, v \in RandomValues}
    ELSE {[i \in 1..CIRCUIT_NODES |-> <<NoDraw, NoDraw>>]}

\* a configuration is given to the renderers with a target size
RenderMount ==
    /\ ui.phase = "idle"
    /\ \E config \in RenderConfigs, size \in RenderSizes :
          ui' = [phase |-> "mounted", config |-> config, size |-> size,
                 renders |-> <<>>, text3d |-> <<>>, scene |-> Null]
    /\ UNCHANGED <<gen, hpc, req, hloc, res, errlog>>

\* one invocation of renderToDataURL for the mounted configuration
Render2D ==
    /\ ui.phase = "mounted"
    /\ Len(ui.renders) < 2
    /\ \E rnd \in PatternDraws(ui.config.pattern) :
          ui' = [ui EXCEPT !.renders =
                    Append(@, renderToDataURL(ui.config, ui.size, rnd))]
    /\ UNCHANGED <<gen, hpc, req, hloc, res, errlog>>

\* the 3D scene of the mounted configuration, and the text it shows
Render3D ==
    /\ ui.phase = "mounted"
    /\ ui.text3d = <<>>
    /\ ui' = [ui EXCEPT !.text3d = LogoText(ui.config),
                        !.scene = Scene(ui.config, FALSE)]
    /\ UNCHANGED <<gen, hpc, req, hloc, res, errlog>>

NextRender == RenderMount \/ Render2D \/ Render3D

SpecRender == Init /\ [][NextRender]_vars

---------------------------------------------------------------------------
(* The SVG export (downloadLogoAsSVG of the application)                   *)

\* String.prototype.toLowerCase on one character
toLowerCase(c) ==
    IF \E i \in 1..26 : UpperCaseLetters[i] = c
    THEN LowerCaseLetters[CHOOSE i \in 1..26 : UpperCaseLetters[i] = c]
    ELSE c

lowerCase(str) == [i \in 1..Len(str) |-> toLowerCase(str[i])]

\* str.replace(/\s+/g, '-'): every maximal run of white space becomes one '-'
RECURSIVE dashWhitespace(_)
dashWhitespace(str) ==
    IF str = <<>> THEN <<>>
    ELSE IF Head(str) \in Whitespace THEN <<"-">> \o dashWhitespace(trimStart(str))
    ELSE <<Head(str)>> \o dashWhitespace(Tail(str))

\* `${n.replace(/\s+/g, '-').toLowerCase()}-logo.svg`
svgFileName(n) == lowerCase(dashWhitespace(n)) \o <<"-logo.svg">>

\* an element of the document: its tag, the attributes the template fills
\* in, and its text content
Element(tag, attrs, text) == [tag |-> tag, attrs |-> attrs, text |-> text]

\* letterSpacing || 2 : 0 is falsy
spacingOrDefault(letterSpacing) == IF letterSpacing.n = 0 THEN Q(2) ELSE letterSpacing

\* a document whose two text elements are swapped
svgContentTaglineFirst(config) ==
    <<Element("text", [y |-> "320", fill |-> config.palette.primary],
              <<"B", "R", "A", "N", "D">>),
      Element("text", [y |-> "380", fill |-> config.palette.secondary],
              upperCase(config.name))>>

\* the template literal of downloadLogoAsSVG, element by element
svgContent(config) ==
    LET n == config.name
        palette == config.palette
        length == IF Len(n) > 1 THEN Len(n) ELSE 1
    IN  <<Element("svg", [width |-> "600", height |-> "600"], <<>>),
          Element("stop", [offset |-> "0%", stopColor |-> palette.primary], <<>>),
          Element("stop", [offset |-> "100%", stopColor |-> palette.secondary], <<>>),
          Element("filter", [id |-> "glow"], <<>>),
          Element("rect", [fill |-> palette.bg, rx |-> "24"], <<>>),
          Element("circle", [r |-> "200", fill |-> "url(#fill)", stroke |-> palette.primary], <<>>),
          Element("circle", [r |-> "145", fill |-> "none", stroke |-> palette.accent], <<>>),
          Element("text",
                  [y |-> "320",
                   fontSize |-> RMin(Q(64), Rat(560, length)),
                   letterSpacing |-> spacingOrDefault(config.letterSpacing),
                   fill |-> palette.primary],
                  upperCase(n)),
          Element("text", [y |-> "380", fontSize |-> "20px", fill |-> palette.secondary],
                  <<"B", "R", "A", "N", "D">>)>>

Brand == <<"B", "r", "a", "n", "d">>

\* names of 1 to 50 characters
ExportNames == {Brand, <<"b">>, NexusLabs, Rep("x", 50)}

\* three style selections in each of two palette categories
ExportSelections ==
    {Obj([paletteType |-> Str(p), shapeStyle |-> Str(st[1]), fontStyle |-> Str("sans"),
          effect |-> Str(st[2]), layoutMode |-> Str(st[3]), pattern |-> Str(st[4])]) :
        p \in {"neon", "ocean"},
        st \in {<<"circle", "glow", "centered", "none">>,
                <<"star", "outline", "monogram", "circuits">>,
                <<"hexagon", "glass", "split", "dots">>}}

\* Math.random() values of the letterSpacing call: letterSpacing -2, 0, 4
SpacingDraws == {Rat(0, 4), Rat(1, 4), Rat(3, 4)}

ExportConfigs ==
    {generateLogoConfig(n, sel, [rndAll(U(1)) EXCEPT !.letterSpacing = ls]).value :
        n \in ExportNames, sel \in ExportSelections, ls \in SpacingDraws}

\* two configurations are at hand (cards of the grid)
ExportMount ==
    /\ ui.phase = "idle"
    /\ \E a \in ExportConfigs, b \in ExportConfigs :
          ui' = [phase |-> "export", configs |-> <<a, b>>, saved |-> <<>>, toasts |-> <<>>]
    /\ UNCHANGED <<gen, hpc, req, hloc, res, errlog>>

\* downloadLogoAsSVG(config, showToast) for the next of the two
ExportSVG ==
    /\ ui.phase = "export"
    /\ Len(ui.saved) < 2
    /\ LET config == ui.configs[Len(ui.saved) + 1]
       IN  ui' = [ui EXCEPT
                    !.saved = Append(@, [type |-> "image/svg+xml",
                                         content |-> svgContent(config),
                                         name |-> svgFileName(config.name)]),
                    !.toasts = Append(@, <<"Saved", config.name, "as SVG">>)]
    /\ UNCHANGED <<gen, hpc, req, hloc, res, errlog>>

NextExport == ExportMount \/ ExportSVG

SpecExport == Init /\ [][NextExport]_vars

---------------------------------------------------------------------------
(* A logo card and its preview modal.  The repository holds two versions   *)
(* of the card component: "boundary" (grid always 2D; the modal mounts the *)
(* 3D renderer inside Preview3DErrorBoundary) and "suspense"               *)
(* (LogoCard.jsx: the grid card mounts the 3D renderer inside Suspense;    *)
(* the modal is always 2D).                                                *)

CardVersions == {"boundary", "suspense"}

Nothing == [renderer |-> "none"]
Canvas2D(config, size) == [renderer |-> "2d", config |-> config, size |-> size]
Scene3D(config) == [renderer |-> "3d", config |-> config]

\* the canvas area of the grid card
cardCanvas(version, config, use3D) ==
    IF version = "suspense" /\ use3D THEN Scene3D(config)
    ELSE Canvas2D(config, "measured")

\* the canvas area of the modal; hasError is the state of the error boundary
modalCanvas(version, config, use3D, hasError) ==
    IF version = "suspense" THEN Canvas2D(config, "420")
    ELSE IF ~use3D THEN Canvas2D(config, "viewport")
    ELSE IF hasError THEN Canvas2D(config, "500")
    ELSE Scene3D(config)

\* one configuration per shape, for two names
PreviewConfigs ==
    {generateLogoConfig(n,
        Obj([paletteType |-> Str("fire"), shapeStyle |-> Str(SHAPE_STYLES[sh]),
             fontStyle |-> Str("sans"), effect |-> Str("glass"),
             layoutMode |-> Str("stacked"), pattern |-> Str("grid")]),
        rndAll(U(1))).value : n \in {Acme, NexusLabs}, sh \in 1..Len(SHAPE_STYLES)}

\* the card is rendered in the grid
CardMount ==
    /\ ui.phase = "idle"
    /\ \E version \in CardVersions, config \in PreviewConfigs, use3D \in BOOLEAN :
          ui' = [phase |-> "card", version |-> version, config |-> config,
                 use3D |-> use3D, showPreview |-> FALSE, hasError |-> FALSE,
                 card |-> cardCanvas(version, config, use3D),
                 modal |-> Nothing, crashed |-> FALSE, failed |-> {}]
    /\ UNCHANGED <<gen, hpc, req, hloc, res, errlog>>

\* handleZoom: setShowPreview(true); the modal mounts with a fresh boundary
Zoom ==
    /\ ui.phase = "card"
    /\ ~ui.crashed
    /\ ~ui.showPreview
    /\ ui' = [ui EXCEPT !.showPreview = TRUE, !.hasError = FALSE,
                        !.modal = modalCanvas(ui.version, ui.config, ui.use3D, FALSE)]
    /\ UNCHANGED <<gen, hpc, req, hloc, res, errlog>>

\* onClose: setShowPreview(false); the modal and its boundary unmount
ClosePreview ==
    /\ ui.phase = "card"
    /\ ~ui.crashed
    /\ ui.showPreview
    /\ ui' = [ui EXCEPT !.showPreview = FALSE, !.hasError = FALSE, !.modal = Nothing]
    /\ UNCHANGED <<gen, hpc, req, hloc, res, errlog>>

\* the 3D renderer mounted at `place' throws while rendering.  An error
\* boundary above it catches the error and renders its fallback; Suspense
\* catches no error, and without a boundary React unmounts the whole tree.
Fail3D(place) ==
    /\ ui.phase = "card"
    /\ ~ui.crashed
    /\ ui[place].renderer = "3d"
    /\ IF place = "modal" /\ ui.version = "boundary"
       THEN ui' = [ui EXCEPT !.hasError = TRUE,
                             !.modal = modalCanvas(ui.version, ui.config, ui.use3D, TRUE),
                             !.failed = @ \cup {place}]
       ELSE ui' = [ui EXCEPT !.crashed = TRUE, !.card = Nothing, !.modal = Nothing,
                             !.failed = @ \cup {place}]
    /\ UNCHANGED <<gen, hpc, req, hloc, res, errlog>>

\* the boundary renders again while it holds the error
Rerender ==
    /\ ui.phase = "card"
    /\ ~ui.crashed
    /\ ui.showPreview
    /\ ui' = [ui EXCEPT !.modal = modalCanvas(ui.version, ui.config, ui.use3D, ui.hasError)]
    /\ UNCHANGED <<gen, hpc, req, hloc, res, errlog>>

NextPreview ==
    \/ CardMount
    \/ Zoom
    \/ ClosePreview
    \/ \E place \in {"card", "modal"} : Fail3D(place)
    \/ Rerender

SpecPreview == Init /\ [][NextPreview]_vars

---------------------------------------------------------------------------
(* The generator called once, the draws of decorCount, hslShift and the    *)
(* Bezier offsets varied                                                   *)

\* filter selections that differ in every style field
NumericSelections ==
    {Obj(<<>>), ConcreteSelection,
     Obj([paletteType |-> Str("galaxy"), shapeStyle |-> Str("arch"),
          fontStyle |-> Str("sharp"), effect |-> Str("glass"),
          layoutMode |-> Str("monogram"), pattern |-> Str("circuits")])}

\* values of Math.random(): the multiples of 1/NumericDen, and values just
\* below 1
NumericValues ==
    {Rat(k, NumericDen) : k \in 0..(NumericDen - 1)} \cup {Rat(359, 360), Rat(999, 1000)}

\* the eight draws of the Bezier offsets: all equal, or one differing
BezierDraws ==
    {[i \in 1..2 |-> [j \in 1..4 |-> u]] : u \in RandomValues}
    \cup {[i \in 1..2 |-> [j \in 1..4 |->
              IF <<i, j>> = site THEN U(RandDen - 1) ELSE U(0)]] :
            site \in (1..2) \X (1..4)}

NumericDraws ==
    {[rndAll(U(0)) EXCEPT !.decorCount = d, !.hslShift = h, !.bezier = b] :
        d \in NumericValues, h \in {U(0), Rat(359, 360), Rat(999, 1000)},
        b \in BezierDraws}

\* the call, with one of the selections
GenEnterStyled ==
    /\ gen.phase = "idle"
    /\ \E options \in NumericSelections :
          gen' = [phase |-> "called", name |-> Acme, options |-> options]
    /\ UNCHANGED <<hpc, req, hloc, res, errlog, ui>>

\* the body runs with the draws and returns
GenReturnNumeric ==
    /\ gen.phase = "called"
    /\ \E rnd \in NumericDraws :
          gen' = [phase |-> "returned", name |-> gen.name,
                  options |-> gen.options, rnd |-> rnd,
                  out |-> generateLogoConfig(gen.name, gen.options, rnd)]
    /\ UNCHANGED <<hpc, req, hloc, res, errlog, ui>>

NextNumeric == GenEnterStyled \/ GenReturnNumeric

SpecNumeric == Init /\ [][NextNumeric]_vars

---------------------------------------------------------------------------
(* The application component (App) with its filter panel: the state of    *)
(* useState, the event handlers, and the generation requests in flight     *)

\* generation requests issued in one observation
MaxRequests == 2

\* texts of the name input: empty, blanks only, a name in blanks
AppNames == {<<>>, <<" ", " ">>, <<" ">> \o nova \o <<" ">>}

\* the cards that are clicked: the first and the last of the grid
CardsClicked(logos) == {1, Len(logos)} \cap DOMAIN logos

\* the chip that is clicked
ChipClicks == {<<"shape", "star">>}

\* setToast({ msg, icon }); msg is the text in its parts
Toast(msg, icon) == [msg |-> msg, icon |-> icon]

WarningToast == Toast(<<"Please enter a brand name first">>, "!")
ErrorToast == Toast(<<"Could not reach API - check your connection.">>, "x")
SavedToast(name) == Toast(<<"Saved", name, "as SVG">>, "download")

\* const [...] = useState(...) of App, and the draft of FilterPanel; issued
\* counts the requests posted so far, pending holds those without an answer
\* yet, latest the one posted last, overlapped whether a request was ever
\* posted while another had no answer; toast is the last toast shown (its
\* timer only hides it)
AppInitial ==
    [phase |-> "app", name |-> <<>>, logos |-> <<>>, loading |-> FALSE,
     selected |-> Null, filters |-> DEFAULT_FILTERS, count |-> 9,
     toast |-> Null, hasGenerated |-> FALSE, draft |-> DEFAULT_FILTERS,
     issued |-> 0, pending |-> {}, latest |-> Null, overlapped |-> FALSE]

\* the body of axios.post('/api/generate', ...)
requestBody(name, count, activeF) ==
    [name |-> trim(name), count |-> count, filters |-> postedFilters(activeF)]

\* the logos the handler answers request number k with: count
\* configurations of the trimmed name, each with an identifier of its own
responseLogos(body, k) ==
    LET config == generateLogoConfig(trimmedName(Str(body.name)), body.filters,
                                     rndAll(U(1))).value
    IN  [i \in 1..logoCount(IntNum(body.count)) |-> [config EXCEPT !.id = <<k, i>>]]

\* the request generate() posts from the state s, numbered, with the value
\* hasGenerated has when it is posted
Request(s, activeF) ==
    [k |-> s.issued + 1, body |-> requestBody(s.name, s.count, activeF),
     hadGenerated |-> s.hasGenerated]

\* generate() that leaves an earlier selection in place
generateKeepingSelection(s, activeFilters) ==
    LET activeF == IF activeFilters = Undefined THEN s.filters ELSE activeFilters
    IN  IF trim(s.name) = <<>>
        THEN [s EXCEPT !.toast = WarningToast, !.selected = Null]
        ELSE [s EXCEPT !.loading = TRUE, !.logos = <<>>,
                       !.issued = @ + 1,
                       !.pending = @ \cup {Request(s, activeF)},
                       !.latest = Request(s, activeF),
                       !.overlapped = @ \/ s.pending # {}]

\* generate(activeFilters) on the state s; activeFilters is Undefined when
\* the caller passes nothing
generate(s, activeFilters) ==
    LET activeF == IF activeFilters = Undefined THEN s.filters ELSE activeFilters
    IN  IF trim(s.name) = <<>>
        THEN [s EXCEPT !.toast = WarningToast]
        ELSE [s EXCEPT !.loading = TRUE, !.selected = Null, !.logos = <<>>,
                       !.issued = @ + 1,
                       !.pending = @ \cup {Request(s, activeF)},
                       !.latest = Request(s, activeF),
                       !.overlapped = @ \/ s.pending # {}]

\* handleApplyFilters regenerating with the filters applied before
handleApplyFiltersStale(s, newFilters) ==
    LET applied == [s EXCEPT !.filters = newFilters]
    IN  IF s.hasGenerated /\ trim(s.name) # <<>>
        THEN [generate(s, Undefined) EXCEPT !.filters = newFilters]
        ELSE applied

\* handleApplyFilters(newFilters)
handleApplyFilters(s, newFilters) ==
    LET applied == [s EXCEPT !.filters = newFilters]
    IN  IF s.hasGenerated /\ trim(s.name) # <<>>
        THEN generate(applied, newFilters)
        ELSE applied

\* a call of generate() posts a request unless the name is blank; the
\* observation ends with the last request
CanIssue == ui.issued < MaxRequests \/ trim(ui.name) = <<>>

AppMount ==
    /\ ui.phase = "idle"
    /\ ui' = AppInitial
    /\ UNCHANGED <<gen, hpc, req, hloc, res, errlog>>

\* onChange of the name input
TypeName ==
    /\ ui.phase = "app"
    /\ \E n \in AppNames : ui' = [ui EXCEPT !.name = n]
    /\ UNCHANGED <<gen, hpc, req, hloc, res, errlog>>

\* the Generate button, disabled while loading
ClickGenerate ==
    /\ ui.phase = "app"
    /\ ~ui.loading
    /\ CanIssue
    /\ ui' = generate(ui, Undefined)
    /\ UNCHANGED <<gen, hpc, req, hloc, res, errlog>>

\* handleKeyDown with the Enter key: the input stays enabled while loading
PressEnter ==
    /\ ui.phase = "app"
    /\ CanIssue
    /\ ui' = generate(ui, Undefined)
    /\ UNCHANGED <<gen, hpc, req, hloc, res, errlog>>

\* the regenerate button of the toolbar
Regenerate ==
    /\ ui.phase = "app"
    /\ ~ui.loading
    /\ ui.logos # <<>>
    /\ CanIssue
    /\ ui' = generate(ui, Undefined)
    /\ UNCHANGED <<gen, hpc, req, hloc, res, errlog>>

\* set(key, val) of the panel: a chip is clicked
ChipSet ==
    /\ ui.phase = "app"
    /\ \E c \in ChipClicks : ui' = [ui EXCEPT !.draft[c[1]] = c[2]]
    /\ UNCHANGED <<gen, hpc, req, hloc, res, errlog>>

\* reset of the panel
ChipReset ==
    /\ ui.phase = "app"
    /\ ui' = [ui EXCEPT !.draft = DEFAULT_FILTERS]
    /\ UNCHANGED <<gen, hpc, req, hloc, res, errlog>>

\* the Apply button: onApply(draft); the effect that copies filters to the
\* draft finds them equal
Apply ==
    /\ ui.phase = "app"
    /\ CanIssue
    /\ ui' = handleApplyFilters(ui, ui.draft)
    /\ UNCHANGED <<gen, hpc, req, hloc, res, errlog>>

\* a card of the grid is clicked: onSelect(config); the grid shows the
\* cards only while not loading
Select ==
    /\ ui.phase = "app"
    /\ ~ui.loading
    /\ \E i \in CardsClicked(ui.logos) : ui' = [ui EXCEPT !.selected = ui.logos[i]]
    /\ UNCHANGED <<gen, hpc, req, hloc, res, errlog>>

\* the close button of the action bar
Deselect ==
    /\ ui.phase = "app"
    /\ ui.selected # Null
    /\ ui' = [ui EXCEPT !.selected = Null]
    /\ UNCHANGED <<gen, hpc, req, hloc, res, errlog>>

\* dlSVG() from the action bar: downloadLogoAsSVG(selected, showToast)
DownloadSelected ==
    /\ ui.phase = "app"
    /\ ui.selected # Null
    /\ ui' = [ui EXCEPT !.toast = SavedToast(ui.selected.name)]
    /\ UNCHANGED <<gen, hpc, req, hloc, res, errlog>>

\* the await of request k resumes with a 200 answer:
\* setLogos(data.logos || []); setHasGenerated(true); setLoading(false)
ResponseArrives(k) ==
    /\ ui.phase = "app"
    /\ \E r \in ui.pending :
          /\ r.k = k
          /\ ui' = [ui EXCEPT !.logos = responseLogos(r.body, k),
                              !.hasGenerated = TRUE,
                              !.loading = FALSE,
                              !.pending = @ \ {r}]
    /\ UNCHANGED <<gen, hpc, req, hloc, res, errlog>>

\* the await of request k throws (no connection, or an answer that is not
\* 2xx): the toast, then setLoading(false)
RequestFails(k) ==
    /\ ui.phase = "app"
    /\ \E r \in ui.pending :
          /\ r.k = k
          /\ ui' = [ui EXCEPT !.toast = ErrorToast,
                              !.loading = FALSE,
                              !.pending = @ \ {r}]
    /\ UNCHANGED <<gen, hpc, req, hloc, res, errlog>>

NextApp ==
    \/ AppMount
    \/ TypeName
    \/ ClickGenerate
    \/ PressEnter
    \/ Regenerate
    \/ ChipSet
    \/ ChipReset
    \/ Apply
    \/ Select
    \/ Deselect
    \/ DownloadSelected
    \/ \E k \in 1..MaxRequests : ResponseArrives(k)
    \/ \E k \in 1..MaxRequests : RequestFails(k)

SpecApp == Init /\ [][NextApp]_vars

---------------------------------------------------------------------------
(* Properties *)

GenDone == gen.phase = "returned" /\ ~gen.out.threw
GenOut == gen.out.value

\* the value a filter field was called with ('random' when it is absent)
FilterField(k) ==
    IF gen.options.t = "object" /\ k \in DOMAIN gen.options.f
    THEN gen.options.f[k]
    ELSE Str("random")

IsMember(arr, v) == v.t = "string" /\ \E i \in 1..Len(arr) : arr[i] = v.s
IsOutside(arr, v) == v # Str("random") /\ ~IsMember(arr, v)

AllSixMembers ==
    /\ IsMember(PALETTE_KEYS, FilterField("paletteType"))
    /\ IsMember(SHAPE_STYLES, FilterField("shapeStyle"))
    /\ IsMember(FONT_STYLES, FilterField("fontStyle"))
    /\ IsMember(EFFECTS, FilterField("effect"))
    /\ IsMember(LAYOUT_MODES, FilterField("layoutMode"))
    /\ IsMember(PATTERNS, FilterField("pattern"))

\* C1: for every filter selection the returned configuration's shape,
\* fontStyle, effect, layout and pattern are members of their closed sets and
\* palette.paletteName is one of the eight palette categories.
C1_EnumFieldsInClosedSets ==
    GenDone =>
        /\ GenOut.shape \in Range(SHAPE_STYLES)
        /\ GenOut.fontStyle \in Range(FONT_STYLES)
        /\ GenOut.effect \in Range(EFFECTS)
        /\ GenOut.layout \in Range(LAYOUT_MODES)
        /\ GenOut.pattern \in Range(PATTERNS)
        /\ GenOut.palette.paletteName \in Range(PALETTE_KEYS)

\* C2: when all six filter fields are members of their sets, the returned
\* palette.paletteName, shape, fontStyle, effect, layout and pattern are
\* exactly those six values, whatever the draws.
C2_ConcretePassthrough ==
    (GenDone /\ AllSixMembers) =>
        /\ GenOut.palette.paletteName = FilterField("paletteType").s
        /\ GenOut.shape = FilterField("shapeStyle").s
        /\ GenOut.fontStyle = FilterField("fontStyle").s
        /\ GenOut.effect = FilterField("effect").s
        /\ GenOut.layout = FilterField("layoutMode").s
        /\ GenOut.pattern = FilterField("pattern").s

C2_Witness ==
    /\ GenDone
    /\ AllSixMembers
    /\ gen.rnd.variant = U(RandDen - 1)
    /\ GenOut.shape = SHAPE_STYLES[3]
    /\ GenOut.palette.paletteName = PALETTE_KEYS[3]

\* C3: the returned palette's four colours are together one of the variants
\* COLOR_PALETTES lists under the category palette.paletteName, and that
\* category is paletteType when paletteType is a category.
C3_PaletteFromResolvedCategory ==
    GenDone =>
        LET p == GenOut.palette
        IN  /\ p.paletteName \in DOMAIN COLOR_PALETTES
            /\ \E i \in 1..Len(COLOR_PALETTES[p.paletteName]) :
                  LET v == COLOR_PALETTES[p.paletteName][i]
                  IN  p = [primary |-> v.primary, secondary |-> v.secondary,
                           accent |-> v.accent, bg |-> v.bg,
                           paletteName |-> p.paletteName]
            /\ IsMember(PALETTE_KEYS, FilterField("paletteType"))
                  => p.paletteName = FilterField("paletteType").s

\* resolved as 'random' is: the call site draws, and the result is the
\* member the draw selects
DrawnMember(arr, u, result) ==
    u \in RandomValues /\ result = arr[FloorMul(u, Len(arr)) + 1]

PickFieldsAsRandom ==
    /\ IsOutside(SHAPE_STYLES, FilterField("shapeStyle"))
          => DrawnMember(SHAPE_STYLES, gen.rnd.shape, GenOut.shape)
    /\ IsOutside(FONT_STYLES, FilterField("fontStyle"))
          => DrawnMember(FONT_STYLES, gen.rnd.font, GenOut.fontStyle)
    /\ IsOutside(EFFECTS, FilterField("effect"))
          => DrawnMember(EFFECTS, gen.rnd.effect, GenOut.effect)
    /\ IsOutside(LAYOUT_MODES, FilterField("layoutMode"))
          => DrawnMember(LAYOUT_MODES, gen.rnd.layout, GenOut.layout)
    /\ IsOutside(PATTERNS, FilterField("pattern"))
          => DrawnMember(PATTERNS, gen.rnd.pattern, GenOut.pattern)

C5_InitialsNonEmptyAtMost3 ==
    GenDone =>
        /\ Len(GenOut.initials) \in 1..3
        /\ gen.name = <<>> => GenOut.initials = <<"L">>
        /\ (gen.name # <<>> /\ \A i \in 1..Len(gen.name) : gen.name[i] = " ")
              => GenOut.initials = <<" ">>

C5_Witness ==
    /\ GenDone
    /\ gen.name = <<>>
    /\ GenOut.initials = <<"L">>

\* the words of a string, any run of white space separating them
RECURSIVE wordsFrom(_, _)
wordsFrom(s, cur) ==
    IF s = <<>> THEN (IF cur = <<>> THEN <<>> ELSE <<cur>>)
    ELSE IF Head(s) \in Whitespace
         THEN (IF cur = <<>> THEN <<>> ELSE <<cur>>) \o wordsFrom(Tail(s), <<>>)
         ELSE wordsFrom(Tail(s), Append(cur, Head(s)))

WordsOf(s) == wordsFrom(s, <<>>)

\* C6: initials is the uppercased first character of each
\* whitespace-separated word of the trimmed name, concatenated and cut to 3,
\* any white space (space, tab, newline, runs) separating words.
C6_InitialsOfWhitespaceWords ==
    (GenDone /\ WordsOf(trim(gen.name)) # <<>>) =>
        GenOut.initials =
            slice0(join([i \in 1..Len(WordsOf(trim(gen.name))) |->
                            toUpperCase(WordsOf(trim(gen.name))[i][1])]), 3)

NameInvalidForGenerator(name) == Len(trim(name)) = 0 \/ Len(name) > 50

\* C7 as stated: generateLogoConfig fails with InvalidInput, returning no
\* configuration, for a name that is empty or white space only after
\* trimming or longer than 50 characters.
C7_GeneratorRejectsName ==
    (gen.phase = "returned" /\ NameInvalidForGenerator(gen.name)) =>
        gen.out.threw /\ gen.out.error = "InvalidInput"

\* C7 amended: generateLogoConfig validates no name: for every name string,
\* empty, white space only and longer than 50 characters included, it
\* returns a configuration whose name is the argument unchanged.
C7_GeneratorAcceptsEveryName ==
    (gen.phase = "returned" /\ gen.options # Null) =>
        /\ ~gen.out.threw
        /\ GenOut.name = gen.name
        /\ Len(GenOut.initials) >= 1

C7_Witness ==
    /\ GenDone
    /\ Len(gen.name) > 50
    /\ GenOut.name = gen.name

\* the value the request body gives a field (undefined when absent)
ReqField(k) ==
    LET b == IF req.body.t = "text" THEN req.body.denotes ELSE req.body
    IN  IF b.t = "object" /\ k \in DOMAIN b.f THEN b.f[k] ELSE Undefined

Sent200 == hpc = "done" /\ res # <<>> /\ res[1].status = 200

IsNumber(v) == v.t = "number"
IsIntegerIn(v, lo, hi) ==
    IsNumber(v) /\ v.frac = <<>> /\ v.exp = 0 /\ v.sign * v.int \in lo..hi
GreaterThan12(v) ==
    IsNumber(v) /\ v.sign > 0
    /\ (v.int > 12 \/ (v.int = 12 /\ v.frac # <<>>) \/ (v.exp > 0 /\ v.int > 0))
Below1(v) == IsNumber(v) /\ (v.sign < 0 \/ (v.int = 0 /\ v.exp = 0))

\* C8: the number of logos of a 200 response is between 1 and 12: count
\* when count is an integer in 1..12, 12 when count is greater than 12, 9
\* when count is missing, and 1 or 9 (the minimum, the default) when count
\* is below 1.
C8_LogoCount ==
    Sent200 =>
        LET n == Len(res[1].body.logos)
            count == ReqField("count")
        IN  /\ n \in 1..12
            /\ IsIntegerIn(count, 1, 12) => n = count.int
            /\ GreaterThan12(count) => n = 12
            /\ count = Undefined => n = 9
            /\ Below1(count) => n \in {1, 9}

\* C9: in a 200 response every logo's name is the response's name, which is
\* the request name trimmed and cut to 50 characters, of length 1..50.
C9_NamesAreTrimmedCutName ==
    Sent200 =>
        LET b == res[1].body
        IN  /\ \A i \in 1..Len(b.logos) : b.logos[i].name = b.name
            /\ b.name = slice0(trim(ReqField("name").s), 50)
            /\ Len(b.name) \in 1..50
            /\ ~(b.name[1] \in Whitespace)

C9_Witness ==
    /\ Sent200
    /\ Len(ReqField("name").s) > 50
    /\ Len(res[1].body.name) = 50
    /\ Len(res[1].body.logos) = 2

\* a name that is missing, no string, empty or white space only
NameUnusable(v) ==
    v.t # "string" \/ \A i \in 1..Len(v.s) : v.s[i] \in Whitespace

\* the body is absent or is (text denoting) a value with fields to read
BodyReadable ==
    req.body.t = "text" => (req.body.valid /\ req.body.denotes # Null)

RejectedPost ==
    /\ req # Undefined
    /\ req.method = "POST"
    /\ BodyReadable
    /\ NameUnusable(ReqField("name"))

---------------------------------------------------------------------------
(* C11: methods other than POST *)

Entered == hpc # "idle"
MethodNotAllowedResponse == Response(405, [error |-> "Method not allowed"])

\* C11 as stated: every request whose method is not POST, OPTIONS included,
\* ends with the single response 405 {error}, the body never parsed and
\* nothing generated.
C11_EveryNonPostGets405 ==
    (Entered /\ req.method # "POST") =>
        /\ hloc = Undefined
        /\ hpc = "done" => res = <<MethodNotAllowedResponse>>

\* C11 amended: a request whose method is neither POST nor OPTIONS ends with
\* the single response 405 {error}; an OPTIONS request ends with the single
\* response 204 without a body; in both cases the body is never parsed,
\* nothing is generated and nothing is logged.
C11_NonPostRejectedOptionsAnswered204 ==
    (Entered /\ req.method # "POST") =>
        /\ hloc = Undefined
        /\ errlog = <<>>
        /\ hpc \in {"entered", "done"}
        /\ hpc = "entered" => res = <<>>
        /\ hpc = "done" =>
              res = <<IF req.method = "OPTIONS" THEN Response(204, Undefined)
                      ELSE MethodNotAllowedResponse>>

\* a DELETE carrying a body that a POST would have answered with logos
C11_Witness ==
    /\ hpc = "done"
    /\ req.method = "DELETE"
    /\ req.body = Body(Str(Acme), IntNum(2), Undefined)
    /\ res = <<MethodNotAllowedResponse>>

---------------------------------------------------------------------------
(* C12: exceptions *)

InternalServerError == Response(500, [error |-> "Internal server error"])

\* the request makes the try block throw: the body is text that is not JSON,
\* the parsed body is null, or the name is accepted and the filters are null
RequestThrows ==
    /\ Entered
    /\ req.method = "POST"
    /\ LET parsed == parseBody(req.body)
       IN  \/ parsed.threw
           \/ parsed.value = Null
           \/ /\ Destructurable(parsed.value)
              /\ ~nameRejected(GetProp(parsed.value, "name"))
              /\ GetProp(parsed.value, "filters") = Null

Caught == Entered /\ hloc # Undefined /\ "err" \in DOMAIN hloc

\* C12: an exception raised while a POST is handled is caught, and the
\* request ends with exactly one response, 500 {error: 'Internal server
\* error'}, carrying no logos and nothing of the exception; the exception
\* is logged once. Every request that makes the try block throw ends so.
C12_ExceptionGives500 ==
    /\ Len(res) <= 1
    /\ Caught =>
          /\ RequestThrows
          /\ hpc \in {"catch", "done"}
          /\ hpc = "catch" => res = <<>> /\ errlog = <<>>
          /\ hpc = "done" => res = <<InternalServerError>> /\ errlog = <<hloc.err>>
    /\ (RequestThrows /\ hpc = "done") => Caught /\ res = <<InternalServerError>>

\* null filters make generateLogoConfig throw on its first call
C12_Witness ==
    /\ hpc = "done"
    /\ req.body = Body(Str(Acme), IntNum(1), Null)
    /\ hloc = [err |-> "TypeError"]
    /\ res = <<InternalServerError>>

\* a text body that is not JSON makes JSON.parse throw
C12_WitnessSyntaxError ==
    /\ hpc = "done"
    /\ req.method = "POST"
    /\ req.body = JsonText(FALSE, Undefined)
    /\ hloc = [err |-> "SyntaxError"]
    /\ res = <<InternalServerError>>

---------------------------------------------------------------------------
(* C13: the filter catalog *)

\* the field of a configuration a filter decides
configField(c, k) ==
    CASE k = "paletteType" -> c.palette.paletteName
      [] k = "shapeStyle" -> c.shape
      [] k = "fontStyle" -> c.fontStyle
      [] k = "effect" -> c.effect
      [] k = "layoutMode" -> c.layout
      [] k = "pattern" -> c.pattern

GeneratorSet(k) ==
    CASE k = "paletteType" -> PALETTE_KEYS
      [] k = "shapeStyle" -> SHAPE_STYLES
      [] k = "fontStyle" -> FONT_STYLES
      [] k = "effect" -> EFFECTS
      [] k = "layoutMode" -> LAYOUT_MODES
      [] k = "pattern" -> PATTERNS

PanelList(k) ==
    CASE k = "paletteType" -> PALETTE_OPTS
      [] k = "shapeStyle" -> SHAPE_OPTS
      [] k = "fontStyle" -> FONT_OPTS
      [] k = "effect" -> EFFECT_OPTS
      [] k = "layoutMode" -> LAYOUT_OPTS
      [] k = "pattern" -> PATTERN_OPTS

FiltersAnswered == hpc = "done" /\ res # <<>>

\* C13: a GET of /api/filters is answered 200 with, per filter, exactly the
\* members of the set the generator resolves that filter against; a value
\* the answer lists, sent back as that filter, is the value of the
\* configuration's field; each option list of the panel is 'random' and
\* the members of the generator's set, and a posted option other than
\* 'random' is the value of the configuration's field; every other method
\* is answered 405.
C13_CatalogIsGeneratorSets ==
    /\ Len(res) <= 1
    /\ (FiltersAnswered /\ req.method = "GET") =>
          /\ res[1].status = 200
          /\ DOMAIN res[1].body =
                {"palettes", "shapes", "fonts", "effects", "layouts", "patterns"}
          /\ \A k \in DOMAIN catalogListOf :
                /\ res[1].body[catalogListOf[k]] = GeneratorSet(k)
                /\ Range(PanelList(k)) = Range(res[1].body[catalogListOf[k]]) \cup {"random"}
                /\ Len(PanelList(k)) = Len(GeneratorSet(k)) + 1
    /\ (FiltersAnswered /\ req.method # "GET") =>
          res = <<Response(405, [error |-> "Method not allowed"])>>
    /\ gen.phase = "returned" =>
          /\ ~gen.out.threw
          /\ \A k \in DOMAIN gen.options.f :
                LET v == gen.options.f[k].s
                IN  /\ v \in Range(PanelList(k))
                    /\ v # "random" => configField(GenOut, k) = v
                    /\ v = "random" => configField(GenOut, k) \in Range(GeneratorSet(k))

\* the last palette category of the catalog answer came back as paletteName
C13_Witness ==
    /\ FiltersAnswered
    /\ req.method = "GET"
    /\ GenDone
    /\ gen.options = Obj("paletteType" :> Str(res[1].body.palettes[8]))
    /\ GenOut.palette.paletteName = "galaxy"

\* the panel's last pattern chip came back as pattern
C13_WitnessPanel ==
    /\ GenDone
    /\ gen.options = postedFilters([DEFAULT_FILTERS EXCEPT !.pattern = "circuits"])
    /\ GenOut.pattern = "circuits"

---------------------------------------------------------------------------
(* C14: the 2D renderer is deterministic *)

RenderedTwice == ui.phase = "mounted" /\ Len(ui.renders) = 2

\* C14: two invocations of the 2D renderer for the same configuration at
\* the same size issue the same calls with the same arguments, for every
\* shape, effect, layout and pattern, the pattern 'circuits' included.
C14_RendererDeterministic ==
    RenderedTwice => ui.renders[1] = ui.renders[2]

\* the rest of C14: with any pattern other than 'circuits' the two
\* invocations agree
C14_DeterministicButCircuits ==
    (RenderedTwice /\ ui.config.pattern # "circuits") => ui.renders[1] = ui.renders[2]

\* two renders of a 'circuits' configuration that differ
C14_Witness ==
    /\ RenderedTwice
    /\ ui.config.pattern = "circuits"
    /\ ui.renders[1] # ui.renders[2]

---------------------------------------------------------------------------
(* C18: the text of a monogram *)

IsTextCall(c) == c.op \in {"fillText", "strokeText"}

\* the texts one 2D render draws, in order
TextsDrawn(render) ==
    LET calls == SelectSeq(render.calls, IsTextCall)
    IN  [i \in 1..Len(calls) |-> calls[i].args[1]]

Tagline == <<"B", "R", "A", "N", "D">>
IsSpace(c) == c = " "
NotSpace(c) == c # " "
NotTagline(t) == t # Tagline

\* C18: for layout 'monogram' every text either renderer draws is the
\* initials, whatever the effect; for every other layout the 3D text is the
\* uppercased name and the texts the 2D renderer draws, the tagline aside,
\* spell the uppercased name.
C18_MonogramDrawsInitialsOnly ==
    ui.phase = "mounted" =>
        LET c == ui.config
            monogram == c.layout = "monogram"
        IN  /\ ui.text3d # <<>> =>
                 ui.text3d = (IF monogram THEN c.initials ELSE upperCase(c.name))
            /\ \A k \in 1..Len(ui.renders) :
                 LET texts == TextsDrawn(ui.renders[k])
                 IN  /\ texts # <<>>
                     /\ monogram => \A i \in 1..Len(texts) : texts[i] = c.initials
                     /\ ~monogram =>
                          SelectSeq(join(SelectSeq(texts, NotTagline)), NotSpace)
                            \in {SelectSeq(upperCase(c.name), NotSpace),
                                 SelectSeq(upperCase(c.name) \o upperCase(c.name), NotSpace)}

\* the same, the 2D renderer with the effects that stroke an outline left out
C18_ButOutlinedMonogram ==
    (ui.phase = "mounted"
       /\ ~(ui.config.layout = "monogram" /\ ui.config.effect \in {"outline", "emboss"}))
    => C18_MonogramDrawsInitialsOnly

\* a monogram with an outline drawn by the 2D renderer
C18_Witness ==
    /\ ui.phase = "mounted"
    /\ ui.config.layout = "monogram"
    /\ ui.config.effect = "outline"
    /\ ui.config.name = NexusLabs
    /\ Len(ui.renders) >= 1
    /\ TextsDrawn(ui.renders[1]) = <<<<"N", "L">>, upperCase(NexusLabs)>>

---------------------------------------------------------------------------
(* C15: the texts of the exported SVG *)

\* the number of places where needle occurs in hay
Occurrences(needle, hay) ==
    Cardinality({i \in 1..(Len(hay) - Len(needle) + 1) :
                    SubSeq(hay, i, i + Len(needle) - 1) = needle})

\* the occurrences of needle in the text contents of a document
RECURSIVE DocOccurrences(_, _)
DocOccurrences(needle, doc) ==
    IF doc = <<>> THEN 0
    ELSE Occurrences(needle, Head(doc).text) + DocOccurrences(needle, Tail(doc))

HasText(e) == e.text # <<>>

Exported(k) == ui.phase = "export" /\ Len(ui.saved) >= k

\* C15 as stated: for every name of 1 to 50 characters the exported
\* document contains the uppercased name exactly once and the tagline
\* 'BRAND' exactly once.
C15_NameOnceTaglineOnce ==
    \A k \in 1..2 : Exported(k) =>
        LET doc == ui.saved[k].content
            name == upperCase(ui.configs[k].name)
        IN  /\ DocOccurrences(name, doc) = 1
            /\ DocOccurrences(Tagline, doc) = 1

\* C15 amended: the exported document has exactly two text elements, the
\* first holding the uppercased name and the second the tagline 'BRAND';
\* the uppercased name therefore occurs exactly once unless it occurs in
\* 'BRAND' (as 'Brand' and the single letters b, r, a, n, d do), and then
\* once more for each such place; likewise for 'BRAND' in the name.
C15_TwoTextsNameThenTagline ==
    \A k \in 1..2 : Exported(k) =>
        LET doc == ui.saved[k].content
            name == upperCase(ui.configs[k].name)
            texts == SelectSeq(doc, HasText)
        IN  /\ Len(texts) = 2
            /\ texts[1].tag = "text" /\ texts[1].text = name
            /\ texts[2].tag = "text" /\ texts[2].text = Tagline
            /\ DocOccurrences(name, doc) = 1 + Occurrences(name, Tagline)
            /\ DocOccurrences(Tagline, doc) = 1 + Occurrences(Tagline, name)

\* 'Brand' exported: 'BRAND' is in the document twice
C15_Witness ==
    /\ Exported(1)
    /\ ui.configs[1].name = Brand
    /\ DocOccurrences(Tagline, ui.saved[1].content) = 2

---------------------------------------------------------------------------
(* C16: the fields the SVG export uses *)

\* the fields of a configuration the export is said to use
UsedByExport(c) ==
    <<c.name, c.palette.primary, c.palette.secondary, c.palette.accent,
      c.palette.bg, c.letterSpacing>>

RatEqual(a, b) == a.n * b.d = b.n * a.d

\* the text element holding the name
NameElement(doc) == SelectSeq(doc, HasText)[1]

\* C16: two configurations that agree on name, the four palette colours and
\* letterSpacing are exported as the same document, whatever their other
\* fields; a circle is drawn; the letter-spacing attribute is the
\* configuration's letterSpacing.
C16_ExportUsesSixFields ==
    /\ (Exported(2) /\ UsedByExport(ui.configs[1]) = UsedByExport(ui.configs[2]))
          => ui.saved[1].content = ui.saved[2].content
    /\ \A k \in 1..2 : Exported(k) =>
          /\ \E i \in 1..Len(ui.saved[k].content) : ui.saved[k].content[i].tag = "circle"
          /\ RatEqual(NameElement(ui.saved[k].content).attrs.letterSpacing,
                      ui.configs[k].letterSpacing)

\* the same, the letter-spacing attribute compared only when letterSpacing
\* is not 0
C16_ButZeroSpacing ==
    /\ (Exported(2) /\ UsedByExport(ui.configs[1]) = UsedByExport(ui.configs[2]))
          => ui.saved[1].content = ui.saved[2].content
    /\ \A k \in 1..2 : Exported(k) =>
          /\ \E i \in 1..Len(ui.saved[k].content) : ui.saved[k].content[i].tag = "circle"
          /\ ui.configs[k].letterSpacing.n # 0 =>
                RatEqual(NameElement(ui.saved[k].content).attrs.letterSpacing,
                         ui.configs[k].letterSpacing)

\* a configuration with letterSpacing 0 exported with letter-spacing 2, and
\* two configurations of different shape exported as the same document
C16_Witness ==
    /\ Exported(2)
    /\ ui.configs[1].letterSpacing.n = 0
    /\ NameElement(ui.saved[1].content).attrs.letterSpacing = Q(2)
    /\ ui.configs[1].shape # ui.configs[2].shape
    /\ ui.saved[1].content = ui.saved[2].content

---------------------------------------------------------------------------
(* C17: a failure of the 3D renderer *)

\* C17: wherever the 3D renderer is mounted, in the grid card or in the
\* preview modal, its failure is caught there: the application is never
\* torn down, the place where it failed shows the 2D renderer for the same
\* configuration, and keeps showing it until the preview is closed.
C17_Failure3DFallsBackTo2D ==
    ui.phase = "card" =>
        /\ ~ui.crashed
        /\ (ui.hasError /\ ui.showPreview) =>
              /\ ui.modal.renderer = "2d"
              /\ ui.modal.config = ui.config
        /\ ("card" \in ui.failed) =>
              /\ ui.card.renderer = "2d"
              /\ ui.card.config = ui.config

\* the same for the version of the card that mounts the 3D renderer only in
\* the modal, inside the error boundary
C17_BoundaryVersionFallsBack ==
    (ui.phase = "card" /\ ui.version = "boundary") => C17_Failure3DFallsBackTo2D

\* the 3D renderer failed in the modal of the boundary version
C17_Witness ==
    /\ ui.phase = "card"
    /\ ui.version = "boundary"
    /\ "modal" \in ui.failed
    /\ ui.showPreview
    /\ ui.modal = Canvas2D(ui.config, "500")

---------------------------------------------------------------------------
(* C19: a configuration is self-describing *)

\* the fields of a configuration the renderers and the exporter read
FieldsRead ==
    {"palette", "shape", "effect", "pattern", "layout", "fontStyle", "name",
     "initials", "glowIntensity", "strokeWidth", "borderRadius", "decorCount",
     "bezierCurves", "letterSpacing", "fontSize"}
ColoursRead == {"primary", "secondary", "accent", "bg"}

SelfDescribing(c) ==
    /\ FieldsRead \subseteq DOMAIN c
    /\ ColoursRead \subseteq DOMAIN c.palette
    /\ Len(c.bezierCurves) = 2
    /\ \A i \in 1..2 : DOMAIN c.bezierCurves[i] = {"cx1", "cy1", "cx2", "cy2"}

\* C19: every configuration the generator returns, for every filter
\* selection, holds every field the renderers and the exporter read,
\* the four palette colours included.
C19_ConfigSelfDescribing ==
    GenDone => SelfDescribing(GenOut)

\* the same for every paletteType that names no inherited property
C19_ButInheritedPaletteName ==
    (GenDone /\ GenOut.palette.paletteName \in Range(PALETTE_KEYS))
        => SelfDescribing(GenOut)

\* a paletteType outside the categories resolved to a full palette
C19_Witness ==
    /\ GenDone
    /\ FilterField("paletteType") = Str("bogus")
    /\ SelfDescribing(GenOut)
    /\ GenOut.palette.paletteName = "vibrant"

---------------------------------------------------------------------------
(* C20: decorCount, hslShift and the Bezier offsets *)

\* 200 * u - 100 for the draw u
OffsetOf(u) == Rat(200 * u.n - 100 * u.d, u.d)

InOffsetRange(x) == ~RLess(x, Q(-100)) /\ RLess(x, Q(100))

\* C20: decorCount is an integer of 3..10 and hslShift an integer of
\* 0..359, each decided by its own draw alone; bezierCurves has exactly two
\* entries, each of four offsets in [-100, 100), each offset decided by its
\* own draw alone; none depends on the filter selection.
C20_IntegerParameters ==
    GenDone =>
        /\ GenOut.decorCount \in 3..10
        /\ GenOut.decorCount = 3 + (gen.rnd.decorCount.n * 8) \div gen.rnd.decorCount.d
        /\ GenOut.hslShift \in 0..359
        /\ GenOut.hslShift = (gen.rnd.hslShift.n * 360) \div gen.rnd.hslShift.d
        /\ Len(GenOut.bezierCurves) = 2
        /\ \A i \in 1..2 :
              LET bc == GenOut.bezierCurves[i]
              IN  /\ DOMAIN bc = {"cx1", "cy1", "cx2", "cy2"}
                  /\ \A k \in DOMAIN bc : InOffsetRange(bc[k])
                  /\ bc.cx1 = OffsetOf(gen.rnd.bezier[i][1])
                  /\ bc.cy1 = OffsetOf(gen.rnd.bezier[i][2])
                  /\ bc.cx2 = OffsetOf(gen.rnd.bezier[i][3])
                  /\ bc.cy2 = OffsetOf(gen.rnd.bezier[i][4])

\* the highest decorCount and hslShift, and one offset differing from the
\* seven others, with a selection of six members
C20_Witness ==
    /\ GenDone
    /\ gen.options = ConcreteSelection
    /\ GenOut.decorCount = 10
    /\ GenOut.hslShift = 359
    /\ GenOut.bezierCurves[1].cy1 # GenOut.bezierCurves[1].cx1
    /\ GenOut.bezierCurves[1].cx1 = GenOut.bezierCurves[2].cy2

\* each of the eight values of decorCount is attained
DecorCountAttained(v) == GenDone /\ GenOut.decorCount = v

---------------------------------------------------------------------------
(* The application: overlapping generation requests *)

InApp == ui.phase = "app"

\* the logos of the grid are those of request number k
LogosOf(k) == \A i \in 1..Len(ui.logos) : ui.logos[i].id[1] = k

\* selected is one of the logos of the list
SelectedIsListed ==
    \E i \in 1..Len(ui.logos) : ui.logos[i] = ui.selected

\* C21: once no request is pending, the logos list is the result of the
\* request issued last (its logos, or none when it failed), never that of
\* a request it superseded
C21_LatestRequestWins ==
    InApp /\ ui.issued > 0 /\ ui.pending = {}
        => ui.logos \in {<<>>, responseLogos(ui.latest.body, ui.latest.k)}

\* the same for requests that never overlapped
C21_LatestWinsWithoutOverlap ==
    InApp /\ ui.issued > 0 /\ ui.pending = {} /\ ~ui.overlapped
        => ui.logos \in {<<>>, responseLogos(ui.latest.body, ui.latest.k)}

\* two requests were issued, both are answered, and the list shows the
\* logos of the first
C21_SupersededDisplayed ==
    InApp /\ ui.issued = 2 /\ ui.pending = {} /\ ui.logos # <<>> /\ LogosOf(1)

\* C26: the selected logo is null or one of the logos held in the list
C26_SelectedIsDisplayed ==
    InApp => ui.selected = Null \/ SelectedIsListed

\* the same for requests that never overlapped
C26_SelectedDisplayedWithoutOverlap ==
    InApp /\ ~ui.overlapped => ui.selected = Null \/ SelectedIsListed

\* a logo is selected that the list does not hold
C26_StaleSelection ==
    InApp /\ ui.selected # Null /\ ~SelectedIsListed

\* C27: loading is true exactly while a request is outstanding
C27_LoadingIffPending ==
    InApp => (ui.loading <=> ui.pending # {})

\* the same for requests that never overlapped
C27_LoadingIffPendingWithoutOverlap ==
    InApp /\ ~ui.overlapped => (ui.loading <=> ui.pending # {})

\* a request is outstanding and loading is false
C27_PendingNotLoading ==
    InApp /\ ui.pending # {} /\ ~ui.loading

---------------------------------------------------------------------------
(* The application: generate with a blank name, the filter draft, and a    *)
(* failed request                                                          *)

NameBlank == trim(ui.name) = <<>>

\* a step that invokes generate() with no argument
GenerateInvoked == ClickGenerate \/ PressEnter \/ Regenerate

\* C28: generate invoked while the name is empty or white space only sends
\* no request and leaves logos, selected, loading, hasGenerated and filters
\* (and everything but the toast) unchanged; the toast is the warning
C28_BlankGenerateOnlyToasts ==
    [][InApp /\ NameBlank /\ GenerateInvoked
          => ui' = [ui EXCEPT !.toast = WarningToast]]_vars

\* generate was invoked with a blank name while logos are shown and one is
\* selected
C28_Witness ==
    /\ InApp /\ NameBlank
    /\ ui.toast = WarningToast
    /\ ui.hasGenerated /\ ui.logos # <<>> /\ ui.selected # Null

\* generate was invoked with a blank name while a request is pending
C28_WitnessLoading ==
    InApp /\ NameBlank /\ ui.toast = WarningToast /\ ui.loading /\ ui.pending # {}

\* the filters object of a request for the applied filters f, key by key
CarriedFilters(f) ==
    Obj([paletteType |-> Str(f.palette), shapeStyle |-> Str(f.shape),
         fontStyle |-> Str(f.font), effect |-> Str(f.effect),
         layoutMode |-> Str(f.layout), pattern |-> Str(f.pattern)])

\* C29: a chip or the reset changes the draft only; the applied filters
\* change only by Apply, which sets them to the draft and posts one request
\* exactly when a generation has succeeded and the name is not blank; every
\* request posted carries the filters applied after the step
C29_FiltersChangeOnlyOnApply ==
    [][InApp /\ ui'.phase = "app" =>
          /\ (ChipSet \/ ChipReset => ui' = [ui EXCEPT !.draft = ui'.draft])
          /\ (ui'.filters # ui.filters => Apply)
          /\ (Apply => /\ ui'.filters = ui.draft
                       /\ ui'.draft = ui.draft
                       /\ ui'.issued = IF ui.hasGenerated /\ ~NameBlank
                                       THEN ui.issued + 1 ELSE ui.issued)
          /\ (ui'.issued # ui.issued =>
                /\ ui'.issued = ui.issued + 1
                /\ ui'.pending = ui.pending \cup {ui'.latest}
                /\ ui'.latest.body.filters = CarriedFilters(ui'.filters))]_vars

\* a request posted after a successful generation carries the chip that
\* was applied
C29_Witness ==
    /\ InApp /\ ui.issued >= 2
    /\ ui.latest.hadGenerated
    /\ ui.filters.shape = "star"
    /\ ui.latest.body.filters.f.shapeStyle = Str("star")

\* the chip was applied before anything was generated: no request
C29_WitnessNoRequest ==
    InApp /\ ui.filters.shape = "star" /\ ui.issued = 0 /\ ~NameBlank

\* the draft differs from the applied filters while a request carrying the
\* applied ones is pending
C29_WitnessDraftOnly ==
    /\ InApp /\ ui.draft # ui.filters /\ ui.pending # {}
    /\ ui.latest.body.filters = CarriedFilters(ui.filters)

\* a step in which a request fails and none is left pending
LastRequestFails == (\E k \in 1..MaxRequests : RequestFails(k)) /\ ui'.pending = {}

\* the state the claim describes after the failure of the request r
EmptyAfterFailure(r) ==
    /\ ~ui'.loading
    /\ ui'.logos = <<>>
    /\ ui'.selected = Null
    /\ ui'.hasGenerated = r.hadGenerated

\* C30: after a request fails with no other request pending, loading is
\* false, the list is empty, nothing is selected and hasGenerated has the
\* value it had before the request
C30_FailureLeavesEmpty ==
    [][InApp /\ LastRequestFails
          => \A r \in ui.pending : EmptyAfterFailure(r)]_vars

\* the same for requests that never overlapped, and a request answered
\* with logos replaces the list
C30_FailureLeavesEmptyWithoutOverlap ==
    [][/\ InApp /\ LastRequestFails /\ ~ui.overlapped
          => \A r \in ui.pending : EmptyAfterFailure(r)
       /\ \A k \in 1..MaxRequests :
            InApp /\ ResponseArrives(k) /\ ~ui.overlapped
               => \A r \in ui.pending : ui'.logos = responseLogos(r.body, r.k)]_vars

\* the last request has failed and logos are shown
C30_ShownAfterFailure ==
    InApp /\ ui.pending = {} /\ ui.toast = ErrorToast /\ ui.logos # <<>>

---------------------------------------------------------------------------
(* The stages of drawLogo *)

\* the positions of an assignment, and of the calls of a method, in a
\* sequence of calls
IsAssign(c, prop) == c.op = "set" /\ c.args[1] = prop
At(calls, prop, v) == {i \in DOMAIN calls : IsAssign(calls[i], prop) /\ calls[i].args[2] = v}
OpAt(calls, op) == {i \in DOMAIN calls : calls[i].op = op}

\* every position of A is before every position of B
Before(A, B) == \A i \in A, j \in B : i < j

\* the call after each position of A is an op
FollowedBy(calls, A, op) ==
    \A i \in A : i + 1 \in DOMAIN calls /\ calls[i + 1].op = op

\* the stages, each found by a call only it issues
ClearAt(calls) == OpAt(calls, "clearRect")
BackgroundAt(calls) == OpAt(calls, "roundRect")
PatternAt(calls) == At(calls, "globalAlpha", Rat(6, 100))
\* the first of the positions of A that is after every position of B
FirstAfter(A, B) ==
    LET after == {i \in A : Before(B, {i})}
    IN  {i \in after : \A j \in after : i <= j}

PatternEndAt(calls) == FirstAfter(At(calls, "globalAlpha", Q(1)), PatternAt(calls))
\* the glow pass strokes with twice the stroke width
GlowAt(config, calls) == At(calls, "lineWidth", RMul(config.strokeWidth, 2, 1))
MainFillAt(calls) == At(calls, "shadowColor", "rgba(0,0,0,0.5)")
\* the first stroke after the fill of the main shape
MainStrokeAt(calls) == FirstAfter(OpAt(calls, "stroke"), MainFillAt(calls))
InnerAt(calls) == At(calls, "globalAlpha", Rat(45, 100))
DotsAt(calls) ==
    {i \in OpAt(calls, "arc") : "turn" \in DOMAIN calls[i].args[1]}
ArcsAt(calls) ==
    {i \in OpAt(calls, "bezierCurveTo") :
        /\ i + 2 \in DOMAIN calls
        /\ IsAssign(calls[i + 1], "strokeStyle")
        /\ IsAssign(calls[i + 2], "globalAlpha")}
TextAt(calls) == {i \in DOMAIN calls : IsTextCall(calls[i])}

\* the opacity an arc is stroked with
ArcAlpha(calls, i) == calls[i + 2].args[2]

\* the dots alternate accent and secondary, from accent
DotsAlternate(config, calls) ==
    LET dots == DotsAt(calls)
    IN  \A i \in dots :
        LET index == Cardinality({j \in dots : j < i})
        IN  /\ IsAssign(calls[i + 1], "fillStyle")
            /\ calls[i + 1].args[2] = IF index % 2 = 0 THEN config.palette.accent
                                      ELSE config.palette.secondary

\* the arcs are stroked with positive opacity, each less than the one before
ArcsFade(calls) ==
    LET arcs == ArcsAt(calls)
    IN  \A i \in arcs :
          /\ RLess(Q(0), ArcAlpha(calls, i))
          /\ \A j \in arcs : i < j => RLess(ArcAlpha(calls, j), ArcAlpha(calls, i))

StagesInOrder(config, calls) ==
    LET glows == config.effect \in {"glow", "neon", "glass"}
        clear == ClearAt(calls)
        background == BackgroundAt(calls)
        pattern == PatternAt(calls)
        patternEnd == PatternEndAt(calls)
        glow == GlowAt(config, calls)
        mainFill == MainFillAt(calls)
        mainStroke == MainStrokeAt(calls)
        inner == InnerAt(calls)
        dots == DotsAt(calls)
        arcs == ArcsAt(calls)
        text == TextAt(calls)
    IN  /\ clear = {2}
        /\ Cardinality(background) = 1
        /\ FollowedBy(calls, background, "fill")
        /\ Cardinality(pattern) = 1
        /\ Cardinality(patternEnd) = 1
        /\ \A i \in pattern, j \in patternEnd : (j > i + 3) <=> config.pattern # "none"
        /\ Cardinality(glow) = IF glows THEN 1 ELSE 0
        /\ FollowedBy(calls, glow, "stroke")
        /\ Cardinality(mainFill) = 1
        /\ FollowedBy(calls, mainFill, "fill")
        /\ Cardinality(mainStroke) = 1
        /\ FollowedBy(calls, mainStroke, "restore")
        /\ Cardinality(inner) = 1
        /\ FollowedBy(calls, inner, "stroke")
        /\ Cardinality(dots) = config.decorCount
        /\ DotsAlternate(config, calls)
        /\ Cardinality(arcs) = 2
        /\ ArcsFade(calls)
        /\ text # {}
        /\ calls[Len(calls)].op = "restore"
        /\ Before(clear, background)
        /\ Before(background, pattern)
        /\ Before(patternEnd, glow)
        /\ Before(patternEnd, mainFill)
        /\ Before(glow, mainFill)
        /\ Before(mainStroke, inner)
        /\ Before(inner, dots)
        /\ Before(dots, arcs)
        /\ Before(arcs, text)

Rendered2D == ui.phase = "mounted" /\ ui.renders # <<>>

\* C22: every render issues its stages in one order: clear, background
\* fill, pattern, the outer glow pass for the effects glow, neon and glass
\* only, the main shape filled then stroked, the inner accent stroke,
\* decorCount dots alternating accent and secondary, both arcs with positive
\* decreasing opacity, and the text last
C22_StagesInFixedOrder ==
    Rendered2D =>
        \A k \in 1..Len(ui.renders) : StagesInOrder(ui.config, ui.renders[k].calls)

\* a render with the glow pass, a pattern and ten dots; one without the
\* glow pass and with three dots
C22_Witness ==
    /\ Rendered2D
    /\ ui.config.decorCount = 10
    /\ ui.config.pattern # "none"

C22_WitnessGlow ==
    /\ Rendered2D
    /\ ui.config.effect = "glow" /\ ui.config.shape = "star"
    /\ ui.config.pattern = "circuits"

C22_WitnessPlain ==
    /\ Rendered2D
    /\ ui.config.effect = "outline" /\ ui.config.layout = "monogram"
    /\ ui.config.pattern = "none"

---------------------------------------------------------------------------
(* The geometry of the shapes *)

RECURSIVE Gcd(_, _)
Gcd(a, b) == IF b = 0 THEN a ELSE Gcd(b, a % b)

\* a non-negative rational in lowest terms
Lowest(x) == Rat(x.n \div Gcd(x.n, x.d), x.d \div Gcd(x.n, x.d))

\* equal as numbers
SameNumber(a, b) == Lowest(a) = Lowest(b)

PathOps == {"beginPath", "moveTo", "lineTo", "arc", "bezierCurveTo", "closePath"}

\* the path that is current at position i: from the last beginPath to the
\* last path call before i
PathBefore(calls, i) ==
    LET on == {j \in 1..(i - 1) : calls[j].op \in PathOps}
        last == CHOOSE j \in on : \A k \in on : k <= j
        begins == {j \in 1..last : calls[j].op = "beginPath"}
        first == CHOOSE j \in begins : \A k \in begins : k <= j
    IN  SubSeq(calls, first, last)

Ops(path) == [k \in 1..Len(path) |-> path[k].op]

\* a closed polygon of n vertices
PolygonOps(n) ==
    <<"beginPath", "moveTo">> \o [k \in 1..(n - 1) |-> "lineTo"] \o <<"closePath">>

\* the calls of the path of each shape kind
ShapeOps(shape) ==
    CASE shape = "circle" -> <<"beginPath", "arc">>
      [] shape = "hexagon" -> PolygonOps(6)
      [] shape = "diamond" -> PolygonOps(4)
      [] shape = "badge" -> PolygonOps(8)
      [] shape = "star" -> PolygonOps(10)
      [] shape = "shield" ->
           <<"beginPath", "moveTo", "lineTo", "lineTo", "bezierCurveTo", "bezierCurveTo",
             "lineTo", "closePath">>
      [] shape = "infinity" ->
           <<"beginPath", "moveTo", "bezierCurveTo", "bezierCurveTo", "bezierCurveTo",
             "bezierCurveTo", "closePath">>
      [] shape = "arch" -> <<"beginPath", "arc", "lineTo", "bezierCurveTo", "closePath">>

\* the rotation of the polygons
ShapeRotation == [hexagon |-> "PI/6", diamond |-> "0", badge |-> "PI/8", star |-> "0"]

\* vertex k (from 0) of a polygon path: the x of its moveTo or lineTo
VertexOf(path, k) == path[k + 2].args[1]

\* the path of one pass of radius rad is that of the shape kind
PathIsOf(shape, path, rad) ==
    /\ Ops(path) = ShapeOps(shape)
    /\ shape = "circle" =>
          /\ SameNumber(path[2].args[3], rad)
          /\ path[2].args[4] = "0" /\ path[2].args[5] = "2PI"
    /\ shape \in {"hexagon", "diamond", "badge"} =>
          \A k \in 0..(Len(path) - 3) :
             /\ SameNumber(VertexOf(path, k).radius, rad)
             /\ VertexOf(path, k).rotation = ShapeRotation[shape]
             \* 2 PI k / sides: step 2k of the half revolution in sides steps
             /\ VertexOf(path, k).step = <<2 * k, Len(path) - 2>>
    /\ shape = "star" =>
          \A k \in 0..9 :
             /\ SameNumber(VertexOf(path, k).radius,
                         IF k % 2 = 0 THEN rad ELSE RMul(rad, 45, 100))
             /\ VertexOf(path, k).step = <<k, 5>>
    /\ shape = "arch" => path[2].args[4] = "PI" /\ path[2].args[5] = "0"

\* the three passes of one render
PassesOfOneKind(config, size, calls) ==
    LET r == Rat(size * 34, 100)
        shape == config.shape
    IN  /\ \A i \in GlowAt(config, calls) :
              PathIsOf(shape, PathBefore(calls, i), RMul(r, 105, 100))
        /\ \A i \in MainFillAt(calls) : PathIsOf(shape, PathBefore(calls, i), r)
        /\ \A i \in InnerAt(calls) :
              PathIsOf(shape, PathBefore(calls, i), RMul(r, 72, 100))

\* the geometry of each shape kind in the 3D scene
ShapeGeometry ==
    [circle |-> "sphereGeometry", diamond |-> "octahedronGeometry",
     hexagon |-> "cylinderGeometry", badge |-> "cylinderGeometry",
     star |-> "torusGeometry", arch |-> "torusGeometry",
     infinity |-> "torusKnotGeometry", shield |-> "boxGeometry"]

SameGeometry(a, b) == a.type = b.type /\ Len(a.args) = Len(b.args) /\ a.args = b.args

\* the shape mesh of the scene has the geometry of the kind, and no other
\* kind has the same
MeshIsOf(shape, mesh) ==
    /\ mesh.geometry.type = ShapeGeometry[shape]
    /\ mesh.geometry.type = "cylinderGeometry" =>
          /\ SameNumber(mesh.geometry.args[3], Rat(3, 10))
          /\ mesh.geometry.args[4] = IF shape = "hexagon" THEN 6 ELSE 8
    /\ \A i \in 1..Len(SHAPE_STYLES) :
          SHAPE_STYLES[i] # shape => ~SameGeometry(Geometry(SHAPE_STYLES[i]), mesh.geometry)

Rendered3D == ui.phase = "mounted" /\ ui.scene # Null

\* C23: each of the 8 shape kinds has a geometry of its own in both
\* renderers: in 2D polygons of 6, 4 and 8 vertices for hexagon, diamond and
\* badge, 10 vertices alternating outer and inner radius for star, a full
\* revolution for circle, fixed curve sequences for shield, infinity and
\* arch, none being the default path, and the glow, main and inner passes
\* of a render are of the same kind; in 3D the kind's geometry
C23_ShapeGeometry ==
    /\ Rendered2D =>
          /\ ui.config.shape \in DOMAIN ShapeGeometry
          /\ \A k \in 1..Len(ui.renders) :
                PassesOfOneKind(ui.config, ui.size, ui.renders[k].calls)
    /\ Rendered3D => MeshIsOf(ui.config.shape, ui.scene.float[1])

\* a star rendered by both renderers, with the glow pass
C23_Witness ==
    /\ Rendered2D /\ Rendered3D
    /\ ui.config.shape = "star"
    /\ GlowAt(ui.config, ui.renders[1].calls) # {}

\* each kind is rendered by both renderers
C23_WitnessKind(shape) == Rendered2D /\ Rendered3D /\ ui.config.shape = shape

\* ------------------------------------------------------------------
\* A session: configurations are created by generateLogoConfig from the
\* catalogs and then rendered, exported, selected and previewed
\* ------------------------------------------------------------------

\* the module-level catalogs of logoConfig.js, as the objects held in memory
Catalogs ==
    [palettes |-> COLOR_PALETTES, shapes |-> SHAPE_STYLES, fonts |-> FONT_STYLES,
     effects |-> EFFECTS, layouts |-> LAYOUT_MODES, patterns |-> PATTERNS]

\* a pickPalette returning the catalog entry itself after writing paletteName
\* into it
pickPaletteAliasing(catalog, paletteType, rnd) ==
    LET key == pickPaletteKey(paletteType, rnd)
        v == paletteVariant(key, rnd)
    IN  IF v = Undefined
        THEN catalog
        ELSE [catalog EXCEPT !.palettes[key] =
                [i \in DOMAIN @ |->
                    IF i = FloorMul(rnd.variant, Len(COLOR_PALETTES[key])) + 1
                    THEN [primary |-> v.primary, secondary |-> v.secondary,
                          accent |-> v.accent, bg |-> v.bg, paletteName |-> key]
                    ELSE @[i]]]

\* the catalogs after pickPalette: { ...arr[i], paletteName: key } builds a new
\* object, and paletteName is written to that object only
pickPaletteWrites(catalog, paletteType, rnd) == catalog

SessionNames == {nova}

SessionSelections ==
    {Obj([paletteType |-> Str("neon"), shapeStyle |-> Str("circle"),
          fontStyle |-> Str("mono"), effect |-> Str("glow"),
          layoutMode |-> Str("centered"), pattern |-> Str("none")]),
     Obj([paletteType |-> Str("random"), shapeStyle |-> Str("star"),
          fontStyle |-> Str("serif"), effect |-> Str("outline"),
          layoutMode |-> Str("monogram"), pattern |-> Str("circuits")])}

MaxConfigs == 2

\* the Math.random draws of one rendering in a session: those of PatternDraws
\* that place a node on the diagonal
SessionDraws(pattern) == {d \in PatternDraws(pattern) : d[1][1] = d[1][2]}

\* the size of <LogoCanvas config size={420}/> and the size downloadLogoAsPNG
\* renders at
CANVAS_SIZE == 420
PNG_SIZE == 800

SessionInitial ==
    [phase |-> "session", catalog |-> Catalogs, configs |-> <<>>,
     selected |-> Null, preview |-> Null, last |-> Null]

SessionMount ==
    /\ ui.phase = "idle"
    /\ ui' = SessionInitial
    /\ UNCHANGED <<gen, hpc, req, hloc, res, errlog>>

\* one call of generateLogoConfig; the draws differ in hslShift
SessionGenerate ==
    /\ ui.phase = "session"
    /\ Len(ui.configs) < MaxConfigs
    /\ \E n \in SessionNames, sel \in SessionSelections, h \in RandomValues :
          LET rnd == [rndAll(U(1)) EXCEPT !.hslShift = h]
          IN  ui' = [ui EXCEPT
                       !.configs = Append(@, generateLogoConfig(n, sel, rnd).value),
                       !.catalog = pickPaletteWrites(@, sel.f.paletteType, rnd)]
    /\ UNCHANGED <<gen, hpc, req, hloc, res, errlog>>

\* what an operation made of configuration i
Made(kind, i, rnd, value) == [kind |-> kind, of |-> i, rnd |-> rnd, value |-> value]

\* <LogoCanvas config size={420}/> draws the configuration
SessionRender2D ==
    /\ ui.phase = "session"
    /\ \E i \in DOMAIN ui.configs :
         \E rnd \in SessionDraws(ui.configs[i].pattern) :
            ui' = [ui EXCEPT !.last =
                      Made("canvas", i, rnd, drawLogo(ui.configs[i], CANVAS_SIZE, rnd))]
    /\ UNCHANGED <<gen, hpc, req, hloc, res, errlog>>

\* <Logo3D config/> builds the scene of the configuration
SessionRender3D ==
    /\ ui.phase = "session"
    /\ \E i \in DOMAIN ui.configs :
          ui' = [ui EXCEPT !.last =
                    Made("scene", i, Null, Scene(ui.configs[i], FALSE))]
    /\ UNCHANGED <<gen, hpc, req, hloc, res, errlog>>

\* downloadLogoAsPNG(config): renderToDataURL(config, 800)
SessionExportPNG ==
    /\ ui.phase = "session"
    /\ \E i \in DOMAIN ui.configs :
         \E rnd \in SessionDraws(ui.configs[i].pattern) :
            ui' = [ui EXCEPT !.last =
                      Made("png", i, rnd, renderToDataURL(ui.configs[i], PNG_SIZE, rnd))]
    /\ UNCHANGED <<gen, hpc, req, hloc, res, errlog>>

\* downloadLogoAsSVG(config)
SessionExportSVG ==
    /\ ui.phase = "session"
    /\ \E i \in DOMAIN ui.configs :
          ui' = [ui EXCEPT !.last =
                    Made("svg", i, Null, svgContent(ui.configs[i]))]
    /\ UNCHANGED <<gen, hpc, req, hloc, res, errlog>>

\* onSelect(config): the application holds the configuration of the card
SessionSelect ==
    /\ ui.phase = "session"
    /\ \E i \in DOMAIN ui.configs :
          ui' = [ui EXCEPT !.selected = ui.configs[i]]
    /\ UNCHANGED <<gen, hpc, req, hloc, res, errlog>>

\* the card opens <PreviewModal config/>
SessionPreview ==
    /\ ui.phase = "session"
    /\ \E i \in DOMAIN ui.configs :
          ui' = [ui EXCEPT !.preview = ui.configs[i]]
    /\ UNCHANGED <<gen, hpc, req, hloc, res, errlog>>

NextSession ==
    \/ SessionMount
    \/ SessionGenerate
    \/ SessionRender2D
    \/ SessionRender3D
    \/ SessionExportPNG
    \/ SessionExportSVG
    \/ SessionSelect
    \/ SessionPreview

SpecSession == Init /\ [][NextSession]_vars

InSession == ui.phase = "session"

\* the configurations held by the card list, the selection and the preview
Held(s) == Range(s.configs) \cup ({s.selected, s.preview} \ {Null})

\* C24: no step of a session changes a configuration that exists, whether the
\* step renders it in 2D or 3D, exports it as PNG or SVG, selects it or
\* previews it; what is selected or previewed is the configuration as it was
\* created; and every step, a generation included, leaves the palette and
\* style catalogs as they are at load, no catalog entry gaining the
\* paletteName that the returned palette carries
C24_ConfigsAndCatalogsUnchanged ==
    [][(InSession /\ ui'.phase = "session") =>
          /\ \A i \in DOMAIN ui.configs : ui'.configs[i] = ui.configs[i]
          /\ Held(ui') \subseteq Range(ui'.configs)
          /\ ui'.catalog = ui.catalog
          /\ ui'.catalog = Catalogs
          /\ \A k \in DOMAIN ui'.catalog.palettes :
               \A j \in DOMAIN ui'.catalog.palettes[k] :
                  "paletteName" \notin DOMAIN ui'.catalog.palettes[k][j]
          /\ \A i \in DOMAIN ui'.configs :
               "paletteName" \in DOMAIN ui'.configs[i].palette]_vars

\* two configurations were generated; one was rendered or exported, one is
\* selected and one is previewed
C24_Witness ==
    /\ InSession
    /\ Len(ui.configs) = MaxConfigs
    /\ ui.last # Null
    /\ ui.selected # Null
    /\ ui.preview # Null

\* each operation the claim names has acted on a configuration
C24_WitnessKind(kind) == InSession /\ ui.last # Null /\ ui.last.kind = kind
C24_WitnessCanvas == C24_WitnessKind("canvas")
C24_WitnessScene == C24_WitnessKind("scene")
C24_WitnessPNG == C24_WitnessKind("png")
C24_WitnessSVG == C24_WitnessKind("svg")

\* hslShift is Math.floor(Math.random() * 360)
ShiftValues == {0, 1, 90, 180, 359}

\* the configuration that differs from config in hslShift only
Shifted(config, h) == [config EXCEPT !.hslShift = h]

\* what the operation of the given kind makes of a configuration under the
\* given Math.random draws
MadeOf(kind, config, rnd) ==
    CASE kind = "canvas" -> drawLogo(config, CANVAS_SIZE, rnd)
      [] kind = "png" -> renderToDataURL(config, PNG_SIZE, rnd)
      [] kind = "scene" -> Scene(config, FALSE)
      [] kind = "svg" -> svgContent(config)

\* C25: what the 2D renderer, the 3D renderer and the SVG export made of a
\* configuration is what they make, under the same Math.random draws, of every
\* configuration that differs from it in hslShift only: the same drawing
\* calls, the same scene, the same document, and so the same colours
C25_ShiftIsInert ==
    (InSession /\ ui.last # Null) =>
        \A h \in ShiftValues :
            MadeOf(ui.last.kind, Shifted(ui.configs[ui.last.of], h), ui.last.rnd)
                = ui.last.value

\* configurations i and j differ in hslShift and in nothing else
ShiftApart(i, j) ==
    /\ ui.configs[i].hslShift # ui.configs[j].hslShift
    /\ Shifted(ui.configs[i], ui.configs[j].hslShift) = ui.configs[j]

\* the session holds two configurations that differ in hslShift only, and one
\* of them was rendered or exported
C25_Witness ==
    /\ InSession
    /\ Len(ui.configs) = MaxConfigs
    /\ ShiftApart(1, 2)
    /\ ui.last # Null

\* ... by each of the three renderers
C25_WitnessKind(kind) == C25_Witness /\ ui.last.kind = kind
C25_WitnessCanvas == C25_WitnessKind("canvas")
C25_WitnessScene == C25_WitnessKind("scene")
C25_WitnessSVG == C25_WitnessKind("svg")

====
